---- MODULE Spec2Model ----
(***************************************************************************)
(* A model of the DSLX bytecode interpreter                                *)
(* (xls/dslx/bytecode_interpreter.cc): the value stack, the frame stack,   *)
(* the dispatch loop of Run and the opcode handlers.                       *)
(*                                                                         *)
(* Conventions.  A Bits value is a sequence of 0/1 whose element 1 is bit  *)
(* 0 (the least significant bit).  A program counter is 0-based, as in the *)
(* source, so the instruction at pc is bytecodes[pc + 1].                  *)
(***************************************************************************)
EXTENDS Integers, Sequences, FiniteSets, TLC

VARIABLES
    bytecode_fns,  \* id -> BytecodeFunction; id 0 is the bf given to Interpret
    frames_,       \* BytecodeInterpreter::frames_
    stack_,        \* BytecodeInterpreter::stack_
    status,        \* "running", or how Interpret ended
    result,        \* <<v>> once Interpret has returned the value v
    call_sites,    \* history: for each frame, the pc of the Call that made it
    channels,      \* the FIFO behind each channel handle
    import_data,   \* BytecodeInterpreter::import_data_
    log            \* the messages of Trace (the INFO log) and of Fail

vars == <<bytecode_fns, frames_, stack_, status, result, call_sites,
          channels, import_data, log>>

-----------------------------------------------------------------------------
(* Bounds of the model. *)

\* Longest entry bytecode sequence of the call/return programs.
MaxLen == 4
\* Largest parameter count of the callee.
MaxParams == 2
\* Largest slot index named by a Store or Load.
MaxSlot == 2
\* Longest bytecode sequence of the store/load programs.
MaxStoreLen == 3
\* Deepest value stack explored (loops that push are cut here).
MaxStack == 5
\* Longest bytecode sequence of the jump programs.
MaxJumpLen == 3
\* Largest forward jump displacement (the smallest is -MaxJump + 1).
MaxJump == 2
\* Widest basis of a Slice or WidthSlice.
MaxBasisWidth == 3
\* Widest target type of a WidthSlice.
MaxSliceWidth == 3
\* Bit width of the start and limit values of a slice.
SliceIndexBits == 5
\* Largest magnitude of a start or limit value tried.
MaxIndex == 5

-----------------------------------------------------------------------------
(* The bits engine: width-exact operations on bit vectors. *)

RECURSIVE Pow2(_)
Pow2(n) == IF n <= 0 THEN 1 ELSE 2 * Pow2(n - 1)

\* Every bit vector of width w.
AllBits(w) == [1..w -> {0, 1}]

RECURSIVE BitsToUint(_)
\* Bits::ToUint64: the unsigned value of a bit vector.
BitsToUint(b) ==
    IF Len(b) = 0 THEN 0
    ELSE b[1] + 2 * BitsToUint(SubSeq(b, 2, Len(b)))

\* Bits::ToInt64: the two's complement value of a bit vector.
BitsToInt(b) ==
    IF Len(b) = 0 THEN 0
    ELSE IF b[Len(b)] = 1 THEN BitsToUint(b) - Pow2(Len(b))
    ELSE BitsToUint(b)

RECURSIVE BitsOf(_, _)
\* UBits(value, bit_count) / SBits(value, bit_count): the low w bits of n.
BitsOf(w, n) == IF w = 0 THEN <<>> ELSE <<n % 2>> \o BitsOf(w - 1, n \div 2)

\* Bits::Slice(start, width): bits start .. start + width - 1.
BitsSlice(b, start, width) == [i \in 1..width |-> b[start + i]]

\* bits_ops::ZeroExtend(bits, new_bit_count).
ZeroExtend(b, n) == [i \in 1..n |-> IF i <= Len(b) THEN b[i] ELSE 0]

\* bits_ops::SignExtend(bits, new_bit_count).
SignExtend(b, n) ==
    [i \in 1..n |-> IF i <= Len(b) THEN b[i]
                    ELSE IF Len(b) = 0 THEN 0 ELSE b[Len(b)]]

-----------------------------------------------------------------------------
(* InterpValue. *)

MakeBits(is_signed, b) ==
    [tag |-> IF is_signed THEN "SBits" ELSE "UBits", bits |-> b]
MakeUBits(w, n) == MakeBits(FALSE, BitsOf(w, n))
MakeSBits(w, n) == MakeBits(TRUE, BitsOf(w, n))
MakeBool(b) == MakeUBits(1, IF b THEN 1 ELSE 0)
MakeToken == [tag |-> "Token"]
\* A user-defined function value; fn is the id of its BytecodeFunction.
MakeFunction(f) == [tag |-> "Function", fn |-> f]

IsBits(v) == v.tag \in {"UBits", "SBits"}
IsSigned(v) == v.tag = "SBits"
IsFunction(v) == v.tag = "Function"
IsTrue(v) == IsBits(v) /\ v.bits = <<1>>
GetBitCount(v) == Len(v.bits)

\* InterpValue::HasBits: GetBits and GetBitCount succeed on a bits value and
\* on an enum, and fail on every other value.
HasBits(v) == v.tag \in {"UBits", "SBits", "Enum"}

\* InterpValue::GetBitValueInt64 / GetBitValueUint64 / FitsInUint64; a value
\* without bits does not fit.
GetBitValueInt64(v) == BitsToInt(v.bits)
GetBitValueUint64(v) == BitsToUint(v.bits)
FitsInUint64(v) == HasBits(v) /\ \A i \in 65..Len(v.bits) : v.bits[i] = 0

\* InterpValue::Slice on a bits value: an unsigned window of the bits.
ValueSlice(basis, start, length) ==
    MakeBits(FALSE, BitsSlice(basis.bits, BitsToUint(start.bits), BitsToUint(length.bits)))

\* InterpValue::Add / Sub: width-preserving, the tag of lhs, modulo 2^width.
ValueAdd(lhs, rhs) ==
    [tag |-> lhs.tag,
     bits |-> BitsOf(Len(lhs.bits), BitsToUint(lhs.bits) + BitsToUint(rhs.bits))]
ValueSub(lhs, rhs) ==
    [tag |-> lhs.tag,
     bits |-> BitsOf(Len(lhs.bits),
                     BitsToUint(lhs.bits) - BitsToUint(rhs.bits) + Pow2(Len(lhs.bits)))]

\* InterpValue::Lt / Ge: the signedness of lhs governs the comparison.
ValueLt(lhs, rhs) ==
    IF IsSigned(lhs) THEN BitsToInt(lhs.bits) < BitsToInt(rhs.bits)
    ELSE BitsToUint(lhs.bits) < BitsToUint(rhs.bits)
ValueGe(lhs, rhs) == ~ValueLt(lhs, rhs)

\* Aggregate, enum and channel values.
MakeArray(elements) == [tag |-> "Array", values |-> elements]
MakeTuple(elements) == [tag |-> "Tuple", values |-> elements]
\* An enum value: its bits and the signedness of its EnumDef.
MakeEnum(is_signed, b) == [tag |-> "Enum", bits |-> b, signed |-> is_signed]
MakeChannel(h) == [tag |-> "Channel", handle |-> h]

IsArray(v) == v.tag = "Array"
IsTuple(v) == v.tag = "Tuple"
IsEnum(v) == v.tag = "Enum"

\* InterpValue::IsSigned on a bits or an enum value.
ValueIsSigned(v) == IF IsEnum(v) THEN v.signed ELSE IsSigned(v)

RECURSIVE ValueEq(_, _)
\* InterpValue::Eq: bits and enums by bit pattern, whatever the tags; arrays
\* and tuples element by element; anything else equals only itself.
ValueEq(lhs, rhs) ==
    IF IsBits(lhs) \/ IsEnum(lhs)
    THEN (IsBits(rhs) \/ IsEnum(rhs)) /\ lhs.bits = rhs.bits
    ELSE IF IsTuple(lhs) \/ IsArray(lhs)
    THEN /\ rhs.tag = lhs.tag
         /\ Len(lhs.values) = Len(rhs.values)
         /\ \A i \in 1..Len(lhs.values) : ValueEq(lhs.values[i], rhs.values[i])
    ELSE lhs = rhs

\* InterpValue::Shrl / Shra: lhs shifted right by the unsigned value of the
\* bits of rhs; the result has the tag and the width of lhs.  Shrl fills with
\* zeros, Shra with the most significant bit of lhs.
ValueShrl(lhs, rhs) ==
    LET w == Len(lhs.bits)
        amount == BitsToUint(rhs.bits)
    IN  [tag |-> lhs.tag,
         bits |-> [i \in 1..w |-> IF i + amount <= w THEN lhs.bits[i + amount]
                                  ELSE 0]]
ValueShra(lhs, rhs) ==
    LET w == Len(lhs.bits)
        amount == BitsToUint(rhs.bits)
    IN  [tag |-> lhs.tag,
         bits |-> [i \in 1..w |-> IF i + amount <= w THEN lhs.bits[i + amount]
                                  ELSE lhs.bits[w]]]

\* bits_ops::Reverse and bits_ops::Concat({hi, lo}): the first operand of a
\* concatenation is the most significant.
BitsReverse(b) == [i \in 1..Len(b) |-> b[Len(b) + 1 - i]]
BitsConcat(hi, lo) == lo \o hi

\* InterpValue::Concat: both values have one tag; two arrays give the array
\* of the elements of both, two unsigned bits values the unsigned value of
\* both widths with lhs in the high-order bits.
ValueConcat(lhs, rhs) ==
    IF lhs.tag # rhs.tag THEN [st |-> "InvalidArgument"]
    ELSE IF IsArray(lhs)
    THEN [st |-> "ok", value |-> MakeArray(lhs.values \o rhs.values)]
    ELSE IF lhs.tag = "UBits"
    THEN [st |-> "ok", value |-> MakeBits(FALSE, BitsConcat(lhs.bits, rhs.bits))]
    ELSE [st |-> "InvalidArgument"]

\* The operation of EvalShr taking the kind of shift from the tag of rhs.
EvalShrByRhsTag(lhs, rhs) ==
    IF IsSigned(rhs) THEN ValueShra(lhs, rhs) ELSE ValueShrl(lhs, rhs)

\* The operation EvalShr passes to EvalBinop.
EvalShr(lhs, rhs) ==
    IF IsSigned(lhs) THEN ValueShra(lhs, rhs) ELSE ValueShrl(lhs, rhs)

\* The operations EvalAdd, EvalConcat, EvalEq, EvalLt, EvalShr and EvalSub
\* pass to EvalBinop, by opcode.  Add, Sub and Lt fail on operands that have
\* no bits or differ in width, Shr on operands that have no bits.
BinopResult(op, lhs, rhs) ==
    LET bits == IsBits(lhs) /\ IsBits(rhs)
        ok(v) == [st |-> "ok", value |-> v]
    IN  CASE op = "Concat" -> ValueConcat(lhs, rhs)
          [] op = "Eq" -> ok(MakeBool(ValueEq(lhs, rhs)))
          [] op = "Shr" -> IF bits THEN ok(EvalShr(lhs, rhs))
                           ELSE [st |-> "InvalidArgument"]
          [] OTHER ->
               IF ~bits \/ Len(lhs.bits) # Len(rhs.bits)
               THEN [st |-> "InvalidArgument"]
               ELSE ok(CASE op = "Add" -> ValueAdd(lhs, rhs)
                         [] op = "Sub" -> ValueSub(lhs, rhs)
                         [] op = "Lt" -> MakeBool(ValueLt(lhs, rhs)))

-----------------------------------------------------------------------------
(* Bytecode: an opcode and its payload. *)

Literal(v) == [op |-> "Literal", value |-> v]
Store(i) == [op |-> "Store", slot |-> i]
Load(i) == [op |-> "Load", slot |-> i]
JumpRel(d) == [op |-> "JumpRel", target |-> d]
JumpRelIf(d) == [op |-> "JumpRelIf", target |-> d]
Nullary(op) == [op |-> op]
\* A WidthSlice with its ConcreteType payload, a BitsType.
WidthSlice(is_signed, size) ==
    [op |-> "WidthSlice", type |-> [kind |-> "Bits", signed |-> is_signed, size |-> size]]

\* Every sequence over alphabet of length at most n.
\* A Call and its InvocationData: the invocation it stands for and the
\* caller's symbolic bindings (<<>> when there are none).
Call(invocation, bindings) ==
    [op |-> "Call", invocation |-> invocation, bindings |-> bindings]
CreateArray(n) == [op |-> "CreateArray", num_elements |-> n]

SeqsUpTo(alphabet, n) == UNION {[1..k -> alphabet] : k \in 0..n}

-----------------------------------------------------------------------------
(* Frames and the two stacks. *)

\* Frame::Frame: pc_(0), slots_(args), bf_(bf), type_info_, bindings_ and
\* bf_holder_.  bindings and bf_holder are <<>> when absent and a sequence of
\* one element otherwise; bf_holder owns the bytecodes of a frame that has no
\* entry in the bytecode cache.
Frame(bf, args, type_info, bindings, bf_holder) ==
    [pc |-> 0, slots |-> args, bf |-> bf, type_info |-> type_info,
     bindings |-> bindings, bf_holder |-> bf_holder]

Back(s) == s[Len(s)]
PopBack(s) == SubSeq(s, 1, Len(s) - 1)

CurFrame == Back(frames_)
BytecodesOf(frame) ==
    IF frame.bf_holder # <<>> THEN frame.bf_holder[1]
    ELSE bytecode_fns[frame.bf].bytecodes
CurBytecode == BytecodesOf(CurFrame)[CurFrame.pc + 1]

\* frame->pc() < bytecodes.size(): pc is signed and size() is unsigned, so a
\* negative pc converts to a huge unsigned number and is not below the size.
PcBelowSize(pc, size) == 0 <= pc /\ pc < size

\* Frame::IncrementPc on frames_.back().
IncrementPc(frames) == [frames EXCEPT ![Len(frames)].pc = @ + 1]
SetPc(frames, pc) == [frames EXCEPT ![Len(frames)].pc = pc]
\* Slots written into the bottom frame instead of frames_.back().
SetSlotsOfBottom(frames, slots) == [frames EXCEPT ![1].slots = slots]
SetSlots(frames, slots) == [frames EXCEPT ![Len(frames)].slots = slots]

\* What a handler leaves behind: its status and the stacks as it left them.
Ok(stack, frames) == [st |-> "ok", stack |-> stack, frames |-> frames]
Err(code, stack, frames) == [st |-> code, stack |-> stack, frames |-> frames]

\* Frame::StoreSlot: at most ONE Token is appended, then slots_.at(slot) is
\* assigned; std::vector::at throws std::out_of_range beyond the end.
StoreSlot(slots, slot, value) ==
    LET grown == IF Len(slots) <= slot THEN Append(slots, MakeToken) ELSE slots
    IN  IF slot < Len(grown)
        THEN [st |-> "ok", slots |-> [grown EXCEPT ![slot + 1] = value]]
        ELSE [st |-> "out_of_range", slots |-> grown]

-----------------------------------------------------------------------------
(* Opcode handlers.  Each yields the status it returns and the stacks as   *)
(* it leaves them; bytecode is the instruction being executed.             *)

EvalLiteral(bytecode) == Ok(Append(stack_, bytecode.value), frames_)

\* EvalPop is Pop().status().
EvalPop(bytecode) ==
    IF stack_ = <<>> THEN Err("Internal", stack_, frames_)
    ELSE Ok(PopBack(stack_), frames_)

\* EvalLoad that moves the slot's value out, leaving Token behind.
EvalLoadMoves(bytecode) ==
    IF Len(CurFrame.slots) <= bytecode.slot
    THEN Err("Internal", stack_, frames_)
    ELSE Ok(Append(stack_, CurFrame.slots[bytecode.slot + 1]),
            SetSlots(frames_,
                     [CurFrame.slots EXCEPT ![bytecode.slot + 1] = MakeToken]))

EvalLoad(bytecode) ==
    IF Len(CurFrame.slots) <= bytecode.slot
    THEN Err("Internal", stack_, frames_)
    ELSE Ok(Append(stack_, CurFrame.slots[bytecode.slot + 1]), frames_)

EvalStore(bytecode) ==
    IF stack_ = <<>> THEN Err("InvalidArgument", stack_, frames_)
    ELSE LET r == StoreSlot(CurFrame.slots, bytecode.slot, Back(stack_))
         IN  [st |-> r.st, stack |-> PopBack(stack_),
              frames |-> SetSlots(frames_, r.slots)]

\* A kJumpDest case that discards the value on top of the stack.
EvalJumpDestPops(bytecode) ==
    Ok(IF stack_ = <<>> THEN stack_ ELSE PopBack(stack_), frames_)

\* The kJumpDest case: nothing but the break.
EvalJumpDest(bytecode) == Ok(stack_, frames_)

\* The kJumpRel case: frame->set_pc(frame->pc() + target.value()).
EvalJumpRel(bytecode) == Ok(stack_, SetPc(frames_, CurFrame.pc + bytecode.target))

\* EvalJumpRelIf and the kJumpRelIf case: the popped value decides whether
\* the pc is set to pc + target or left to the break.
EvalJumpRelIf(bytecode) ==
    IF stack_ = <<>> THEN Err("Internal", stack_, frames_)
    ELSE IF IsTrue(Back(stack_))
    THEN Ok(PopBack(stack_), SetPc(frames_, CurFrame.pc + bytecode.target))
    ELSE Ok(PopBack(stack_), frames_)

\* SliceRelative that sends every negative index to zero.
SliceRelativeClampsOnly(index, zero, basis_length) ==
    LET lt_zero == BinopResult("Lt", index, zero)
    IN  IF lt_zero.st # "ok" THEN [st |-> lt_zero.st]
        ELSE [st |-> "ok",
              value |-> IF IsTrue(lt_zero.value) THEN zero ELSE index]

\* EvalSlice, lines 831-840 (and, "ditto", 842-850): a negative start or
\* limit is taken relative to the basis length, and to zero if still negative.
\* Lt and Add fail on an index that has no bits or not the width of zero, and
\* the XLS_ASSIGN_OR_RETURN hands their error back.
SliceRelative(index, zero, basis_length) ==
    LET lt_zero == BinopResult("Lt", index, zero)
        moved == BinopResult("Add", basis_length, index)
        still_lt_zero == BinopResult("Lt", moved.value, zero)
    IN  IF lt_zero.st # "ok" THEN [st |-> lt_zero.st]
        ELSE IF ~IsTrue(lt_zero.value) THEN [st |-> "ok", value |-> index]
        ELSE IF moved.st # "ok" THEN [st |-> moved.st]
        ELSE IF still_lt_zero.st # "ok" THEN [st |-> still_lt_zero.st]
        ELSE [st |-> "ok",
              value |-> IF IsTrue(still_lt_zero.value) THEN zero
                        ELSE moved.value]

\* EvalSlice, lines 820-872.  The three operands are popped first; every
\* later failure leaves without a push.  GetBitCount fails on a basis or a
\* start that has no bits; zero and basis_length have the width of start, so
\* the comparisons fail on a limit of another width, and on a start or a
\* limit that is an enum.  An enum basis has a bit count and gets as far as
\* basis.Slice, which takes a bits value only.
EvalSlice(bytecode) ==
    IF Len(stack_) < 3 THEN Err("Internal", <<>>, frames_)
    ELSE
      LET limit0 == stack_[Len(stack_)]
          start0 == stack_[Len(stack_) - 1]
          basis == stack_[Len(stack_) - 2]
          rest == SubSeq(stack_, 1, Len(stack_) - 3)
          basis_bit_count == GetBitCount(basis)
          start_bit_count == GetBitCount(start0)
          zero == MakeSBits(start_bit_count, 0)
          basis_length == MakeSBits(start_bit_count, basis_bit_count)
          start == SliceRelative(start0, zero, basis_length)
          limit1 == SliceRelative(limit0, zero, basis_length)
          \* If limit extends past the basis, then we truncate limit.
          limit_lt_length == BinopResult("Lt", limit1.value, basis_length)
          limit == IF IsTrue(limit_lt_length.value) THEN limit1.value
                   ELSE basis_length
          length == BinopResult("Sub", limit, start.value)
      IN  IF ~HasBits(basis) \/ ~HasBits(start0)
          THEN Err("InvalidArgument", rest, frames_)
          ELSE IF start.st # "ok" THEN Err(start.st, rest, frames_)
          ELSE IF limit1.st # "ok" THEN Err(limit1.st, rest, frames_)
          ELSE IF limit_lt_length.st # "ok"
          THEN Err(limit_lt_length.st, rest, frames_)
          ELSE IF length.st # "ok" THEN Err(length.st, rest, frames_)
          ELSE IF GetBitValueInt64(start.value) < 0
                  \/ GetBitValueInt64(length.value) < 0
          THEN Err("Internal", rest, frames_)  \* XLS_RET_CHECK_GE
          ELSE IF ~IsBits(basis)
          THEN Err("InvalidArgument", rest, frames_)  \* basis.Slice
          ELSE Ok(Append(rest, ValueSlice(basis,
                                          MakeBits(FALSE, start.value.bits),
                                          MakeBits(FALSE, length.value.bits))),
                  frames_)

\* WidthSliceBits with the basis sign-extended instead.
WidthSliceBitsSignExtends(basis_bits, start_index, width_value) ==
    LET extended == IF start_index + width_value > Len(basis_bits)
                    THEN SignExtend(basis_bits, start_index + width_value)
                    ELSE basis_bits
    IN  BitsSlice(extended, start_index, width_value)

\* EvalWidthSlice, lines 974-978: the window of width_value bits at
\* start_index, over the basis zero-extended when the window passes its end.
WidthSliceBits(basis_bits, start_index, width_value) ==
    LET extended == IF start_index + width_value > Len(basis_bits)
                    THEN ZeroExtend(basis_bits, start_index + width_value)
                    ELSE basis_bits
    IN  BitsSlice(extended, start_index, width_value)

EvalWidthSlice(bytecode) ==
    IF bytecode.type.kind # "Bits" THEN Err("Internal", stack_, frames_)
    ELSE
      LET width_value == bytecode.type.size
          oob_value == MakeUBits(width_value, 0)
      IN  IF stack_ = <<>> THEN Err("Internal", stack_, frames_)
          ELSE
            LET start == Back(stack_)
                popped == PopBack(stack_)
            IN  IF ~FitsInUint64(start) THEN Ok(Append(popped, oob_value), frames_)
                ELSE IF popped = <<>> THEN Err("Internal", popped, frames_)
                ELSE
                  LET start_index == GetBitValueUint64(start)
                      basis == Back(popped)
                      rest == PopBack(popped)
                      basis_width == GetBitCount(basis)
                  IN  IF ~HasBits(basis)  \* basis.GetBits()
                      THEN Err("InvalidArgument", rest, frames_)
                      ELSE IF start_index >= basis_width
                      THEN Ok(Append(rest, oob_value), frames_)
                      ELSE Ok(Append(rest,
                                MakeBits(bytecode.type.signed,
                                         WidthSliceBits(basis.bits, start_index,
                                                        width_value))),
                              frames_)

\* ImportData::GetRootTypeInfo(module): the type information of a module's
\* top level.  A TypeInfo is the module it belongs to and, for the type
\* information of a parametric instantiation, the invocation and bindings it
\* was made for.
GetRootTypeInfo(module) == [module |-> module, inst |-> <<>>]

\* GetBytecodeFn that always takes the caller's type information.
GetBytecodeFnCallerTypeInfo(f, invocation, caller_bindings) ==
    [st |-> "ok", bf |-> f, type_info |-> Back(frames_).type_info]

\* GetBytecodeFn: the BytecodeFunction of callee f, emitted with the type
\* information the call resolves to.  The result is the callee (the key of
\* its bytecodes in the cache) and that type information, or an error.
GetBytecodeFn(f, invocation, caller_bindings) ==
    LET type_info == Back(frames_).type_info
        owner == bytecode_fns[f].owner
    IN  IF ~import_data.cache THEN [st |-> "InvalidArgument"]
        ELSE IF bytecode_fns[f].parametric
        THEN IF caller_bindings = <<>> THEN [st |-> "Internal"]  \* RET_CHECK
             ELSE IF <<type_info.module, invocation, caller_bindings[1]>>
                        \notin import_data.instantiations
             THEN [st |-> "Internal"]
             ELSE [st |-> "ok", bf |-> f,
                   type_info |-> [module |-> owner,
                                  inst |-> <<invocation, caller_bindings[1]>>]]
        ELSE IF owner # type_info.module
        THEN [st |-> "ok", bf |-> f, type_info |-> GetRootTypeInfo(owner)]
        ELSE [st |-> "ok", bf |-> f, type_info |-> type_info]

RECURSIVE PopArgsReversed(_, _, _, _)
\* PopArgs filling args from the front: the arguments end up reversed.
PopArgsReversed(stack, args, i, num_args) ==
    IF i = num_args THEN [st |-> "ok", stack |-> stack, args |-> args]
    ELSE IF stack = <<>> THEN [st |-> "Internal", stack |-> stack, args |-> args]
    ELSE PopArgsReversed(PopBack(stack), [args EXCEPT ![i + 1] = Back(stack)],
                         i + 1, num_args)

RECURSIVE PopArgs(_, _, _, _)
\* The argument loop of EvalCall: args[num_args - i - 1] = Pop().
PopArgs(stack, args, i, num_args) ==
    IF i = num_args THEN [st |-> "ok", stack |-> stack, args |-> args]
    ELSE IF stack = <<>> THEN [st |-> "Internal", stack |-> stack, args |-> args]
    ELSE PopArgs(PopBack(stack), [args EXCEPT ![num_args - i] = Back(stack)],
                 i + 1, num_args)

\* RunBuiltinMap: map(inputs, callee) as a loop in a frame of its own, whose
\* bytecodes the frame owns.  Slot 0 is the input array and slot 1 the loop
\* index.  stack and frames are those EvalCall has left: the builtin is
\* popped and the caller's pc advanced.
RunBuiltinMap(bytecode, stack, frames) ==
    IF Len(stack) < 2 THEN Err("Internal", stack, frames)
    ELSE
      LET callee == Back(stack)
          inputs == Back(PopBack(stack))
          rest == PopBack(PopBack(stack))
      IN  IF ~IsFunction(callee) THEN Err("Internal", PopBack(stack), frames)
          ELSE IF inputs.tag \notin {"Array", "Tuple"}
          THEN Err("InvalidArgument", rest, frames)       \* inputs.GetValues()
          ELSE
            LET size == Len(inputs.values)
                top_of_loop_index == 2
                loop == <<Literal(MakeUBits(32, 0)), Store(1),
                          Nullary("JumpDest"),
                          Load(0), Load(1), Nullary("Index"),
                          Literal(callee),
                          Call(bytecode.invocation, bytecode.bindings),
                          Load(1), Literal(MakeUBits(32, 1)), Nullary("Add"),
                          Store(1),
                          Load(1), Literal(MakeUBits(32, size)), Nullary("Lt")>>
                bytecodes == loop \o
                             <<JumpRelIf(top_of_loop_index - Len(loop)),
                               CreateArray(size)>>
            IN  Ok(rest, Append(frames,
                                Frame("map", <<inputs>>,
                                      Back(frames).type_info,
                                      bytecode.bindings, <<bytecodes>>)))

\* RunBuiltinAssertEq that fails when the operands are equal.
RunBuiltinAssertEqInverted(bytecode, stack, frames) ==
    IF Len(stack) < 2 THEN Err("Internal", stack, frames)
    ELSE LET r == BinopResult("Eq", Back(PopBack(stack)), Back(stack))
             rest == PopBack(PopBack(stack))
         IN  IF r.st # "ok" THEN Err(r.st, rest, frames)
             ELSE IF IsTrue(r.value)
             THEN Err("Failure", Append(rest, r.value), frames)
             ELSE Ok(Append(rest, r.value), frames)

\* RunBuiltinAssertEq: EvalEq replaces the operands by its result, which
\* stays on the stack; a false result is a Failure.  For two arrays the
\* first differing index is looked up for the message, and it is an Internal
\* error to find none.
RunBuiltinAssertEq(bytecode, stack, frames) ==
    IF Len(stack) < 2 THEN Err("Internal", stack, frames)            \* RET_CHECK
    ELSE LET lhs == Back(PopBack(stack))
             rhs == Back(stack)
             rest == PopBack(PopBack(stack))
             r == BinopResult("Eq", lhs, rhs)
             differing ==
                 {i \in 1..Len(lhs.values) :
                     i <= Len(rhs.values) /\ ~ValueEq(lhs.values[i], rhs.values[i])}
         IN  IF r.st # "ok" THEN Err(r.st, rest, frames)
             ELSE IF ~IsTrue(r.value)
             THEN IF IsArray(lhs) /\ IsArray(rhs) /\ differing = {}
                  THEN Err("Internal", Append(rest, r.value), frames)
                  ELSE Err("Failure", Append(rest, r.value), frames)
             ELSE Ok(Append(rest, r.value), frames)

\* RunBuiltinAssertLt: the same with EvalLt.
RunBuiltinAssertLt(bytecode, stack, frames) ==
    IF Len(stack) < 2 THEN Err("Internal", stack, frames)            \* RET_CHECK
    ELSE LET r == BinopResult("Lt", Back(PopBack(stack)), Back(stack))
             rest == PopBack(PopBack(stack))
         IN  IF r.st # "ok" THEN Err(r.st, rest, frames)
             ELSE IF ~IsTrue(r.value)
             THEN Err("Failure", Append(rest, r.value), frames)
             ELSE Ok(Append(rest, r.value), frames)

RECURSIVE RangeLoop(_, _, _, _, _)
\* The loop of RunBuiltinRange, lines 1349-1357, with the first cur.Ge(end),
\* which fails on an end of another width.  The loop changes cur only, so
\* after 2^width iterations that did not end it cur is back at a value it
\* had and the loop never ends:
\* fuel counts the iterations left until then, and "hang" is the outcome of
\* a loop that does not terminate.
RangeLoop(cur, end, one, elements, fuel) ==
    IF Len(cur.bits) # Len(end.bits) THEN [st |-> "InvalidArgument"]  \* cur.Ge
    ELSE IF ValueGe(cur, end) THEN [st |-> "ok", value |-> MakeArray(elements)]
    ELSE IF fuel = 0 THEN [st |-> "hang"]
    ELSE RangeLoop(ValueAdd(cur, one), end, one, Append(elements, cur), fuel - 1)

\* RunBuiltinRange taking the top of the stack for start.
RunBuiltinRangeTopIsStart(bytecode, stack, frames) ==
    IF Len(stack) < 2 THEN Err("Internal", stack, frames)
    ELSE LET start == Back(stack)
             end == Back(PopBack(stack))
             rest == PopBack(PopBack(stack))
         IN  IF ~IsBits(start) \/ ~IsBits(end) THEN Err("Internal", rest, frames)
             ELSE LET r == RangeLoop(start, end,
                                     MakeBits(IsSigned(start),
                                              BitsOf(Len(start.bits), 1)),
                                     <<>>, Pow2(Len(start.bits)))
                  IN  IF r.st # "ok" THEN Err(r.st, rest, frames)
                      ELSE Ok(Append(rest, r.value), frames)

\* RunBuiltinRange through RunBinaryBuiltin: end is popped first, then
\* start; the array of start, start + 1, ... up to end is pushed.
RunBuiltinRange(bytecode, stack, frames) ==
    IF Len(stack) < 2 THEN Err("Internal", stack, frames)            \* RET_CHECK
    ELSE LET end == Back(stack)
             start == Back(PopBack(stack))
             rest == PopBack(PopBack(stack))
         IN  IF ~IsBits(start) \/ ~IsBits(end) THEN Err("Internal", rest, frames)
             ELSE LET r == RangeLoop(start, end,
                                     MakeBits(IsSigned(start),
                                              BitsOf(Len(start.bits), 1)),
                                     <<>>, Pow2(Len(start.bits)))
                  IN  IF r.st # "ok" THEN Err(r.st, rest, frames)
                      ELSE Ok(Append(rest, r.value), frames)

RECURSIVE CreateZeroValue(_)
\* CreateZeroValue: the value of the same shape with every bit zero; only
\* bits values, tuples and arrays have one.
CreateZeroValue(value) ==
    IF IsBits(value)
    THEN [st |-> "ok",
          value |-> [value EXCEPT !.bits = [i \in 1..Len(value.bits) |-> 0]]]
    ELSE IF IsTuple(value) \/ IsArray(value)
    THEN LET zeros == [i \in 1..Len(value.values) |->
                          CreateZeroValue(value.values[i])]
         IN  IF \E i \in 1..Len(value.values) : zeros[i].st # "ok"
             THEN [st |-> "InvalidArgument"]
             ELSE [st |-> "ok",
                   value |-> [value EXCEPT
                                !.values = [i \in 1..Len(value.values) |->
                                               zeros[i].value]]]
    ELSE [st |-> "InvalidArgument"]

\* InterpValue::Slice, for the builtin slice.  Of a bits value it is the
\* unsigned window of length's value at start's value, both unsigned; the
\* window must lie within the bits (a CHECK of Bits::Slice).  Of an array it
\* is the array as long as the array `length`, of the elements from start
\* on, the index held at the last element.
InterpValueSlice(basis, start, length) ==
    IF IsBits(basis)
    THEN IF start.tag # "UBits" \/ length.tag # "UBits"
         THEN [st |-> "InvalidArgument"]
         ELSE IF BitsToUint(start.bits) + BitsToUint(length.bits)
                    > Len(basis.bits)
         THEN [st |-> "crash"]
         ELSE [st |-> "ok", value |-> ValueSlice(basis, start, length)]
    ELSE IF IsArray(basis)
    THEN IF start.tag # "UBits" \/ ~IsArray(length)
         THEN [st |-> "InvalidArgument"]
         ELSE IF basis.values = <<>> /\ length.values # <<>>
         THEN [st |-> "crash"]
         ELSE [st |-> "ok",
               value |-> MakeArray(
                   [i \in 1..Len(length.values) |->
                       LET offset == BitsToUint(start.bits) + i
                       IN  basis.values[IF offset > Len(basis.values)
                                        THEN Len(basis.values) ELSE offset]])]
    ELSE [st |-> "InvalidArgument"]

\* InterpValue::Update: the array or tuple with the element at index
\* replaced; an index past the end is an error.
InterpValueUpdate(array, index, new_value) ==
    IF ~(IsArray(array) \/ IsTuple(array)) \/ ~HasBits(index)
    THEN [st |-> "InvalidArgument"]
    ELSE IF BitsToUint(index.bits) >= Len(array.values)
    THEN [st |-> "InvalidArgument"]
    ELSE [st |-> "ok",
          value |-> [array EXCEPT
                       !.values[BitsToUint(index.bits) + 1] = new_value]]

\* RunBuiltinAddWithCarry: lhs is popped first, so it is the top of the
\* stack.  InterpValue::AddWithCarry adds the two zero-extended to one bit
\* more than the wider and gives the tuple (carry, sum without the carry).
RunBuiltinAddWithCarry(bytecode, stack, frames) ==
    IF Len(stack) < 2 THEN Err("Internal", stack, frames)            \* RET_CHECK
    ELSE LET lhs == Back(stack)
             rhs == Back(PopBack(stack))
             rest == PopBack(PopBack(stack))
             width == IF Len(lhs.bits) > Len(rhs.bits) THEN Len(lhs.bits)
                      ELSE Len(rhs.bits)
             sum == BitsOf(width + 1, BitsToUint(lhs.bits) + BitsToUint(rhs.bits))
         IN  IF ~IsBits(lhs) \/ ~IsBits(rhs) THEN Err("Internal", rest, frames)
             ELSE Ok(Append(rest,
                            MakeTuple(<<MakeBits(FALSE, <<sum[width + 1]>>),
                                        MakeBits(FALSE, SubSeq(sum, 1, width))>>)),
                     frames)

\* RunBuiltinAndReduce: the value is popped, then GetBits may fail; the
\* result is the bool that says whether every bit is one.
RunBuiltinAndReduce(bytecode, stack, frames) ==
    IF stack = <<>> THEN Err("Internal", stack, frames)              \* RET_CHECK
    ELSE LET value == Back(stack)
             rest == PopBack(stack)
             ones == {i \in 1..Len(value.bits) : value.bits[i] = 1}
         IN  IF ~HasBits(value) THEN Err("InvalidArgument", rest, frames)
             ELSE Ok(Append(rest, MakeBool(Cardinality(ones) = Len(value.bits))), frames)

\* RunBuiltinOrReduce: whether some bit is one.
RunBuiltinOrReduce(bytecode, stack, frames) ==
    IF stack = <<>> THEN Err("Internal", stack, frames)              \* RET_CHECK
    ELSE LET value == Back(stack)
             rest == PopBack(stack)
             ones == {i \in 1..Len(value.bits) : value.bits[i] = 1}
         IN  IF ~HasBits(value) THEN Err("InvalidArgument", rest, frames)
             ELSE Ok(Append(rest, MakeBool(ones # {})), frames)

\* RunBuiltinXorReduce: whether the number of one bits is odd.
RunBuiltinXorReduce(bytecode, stack, frames) ==
    IF stack = <<>> THEN Err("Internal", stack, frames)              \* RET_CHECK
    ELSE LET value == Back(stack)
             rest == PopBack(stack)
             ones == {i \in 1..Len(value.bits) : value.bits[i] = 1}
         IN  IF ~HasBits(value) THEN Err("InvalidArgument", rest, frames)
             ELSE Ok(Append(rest, MakeBool(Cardinality(ones) % 2 = 1)), frames)

\* RunBuiltinClz: the count of the zeros above the highest one bit, as an
\* unsigned value of the width of the input.
RunBuiltinClz(bytecode, stack, frames) ==
    IF stack = <<>> THEN Err("Internal", stack, frames)              \* RET_CHECK
    ELSE LET input == Back(stack)
             rest == PopBack(stack)
             bits == input.bits
             zeros == {i \in 1..Len(bits) : \A j \in i..Len(bits) : bits[j] = 0}
         IN  IF ~HasBits(input) THEN Err("InvalidArgument", rest, frames)
             ELSE Ok(Append(rest, MakeUBits(Len(bits), Cardinality(zeros))),
                     frames)

\* RunBuiltinCtz: the count of the zeros below the lowest one bit.
RunBuiltinCtz(bytecode, stack, frames) ==
    IF stack = <<>> THEN Err("Internal", stack, frames)              \* RET_CHECK
    ELSE LET input == Back(stack)
             rest == PopBack(stack)
             bits == input.bits
             zeros == {i \in 1..Len(bits) : \A j \in 1..i : bits[j] = 0}
         IN  IF ~HasBits(input) THEN Err("InvalidArgument", rest, frames)
             ELSE Ok(Append(rest, MakeUBits(Len(bits), Cardinality(zeros))),
                     frames)

\* RunBuiltinEnumerate: the array of the tuples (u32 index, element).
RunBuiltinEnumerate(bytecode, stack, frames) ==
    IF stack = <<>> THEN Err("Internal", stack, frames)              \* RET_CHECK
    ELSE LET input == Back(stack)
             rest == PopBack(stack)
         IN  IF input.tag \notin {"Array", "Tuple"}
             THEN Err("InvalidArgument", rest, frames)     \* input.GetValues()
             ELSE Ok(Append(rest,
                            MakeArray([i \in 1..Len(input.values) |->
                                          MakeTuple(<<MakeUBits(32, i - 1),
                                                      input.values[i]>>)])),
                     frames)

\* RunBuiltinRev: only an unsigned bits value is reversed.
RunBuiltinRev(bytecode, stack, frames) ==
    IF stack = <<>> THEN Err("Internal", stack, frames)              \* RET_CHECK
    ELSE LET value == Back(stack)
             rest == PopBack(stack)
         IN  IF ~IsBits(value) \/ IsSigned(value)
             THEN Err("InvalidArgument", rest, frames)
             ELSE Ok(Append(rest, MakeBits(FALSE, BitsReverse(value.bits))),
                     frames)

\* The function RunBuiltinGate passes to RunBinaryBuiltin.
RunBuiltinGate(pass_value, value) ==
    IF IsTrue(pass_value) THEN [st |-> "ok", value |-> value]
    ELSE CreateZeroValue(value)

\* The function RunBuiltinOneHot passes to RunBinaryBuiltin.
\* InterpValue::OneHot gives the unsigned value one bit wider than the input
\* with one bit set: that of the lowest (lsb_is_prio) or highest set bit of
\* the input, or the added top bit when the input is zero.
RunBuiltinOneHot(input, lsb_is_prio) ==
    IF ~HasBits(input) THEN [st |-> "InvalidArgument"]
    ELSE LET w == Len(input.bits)
             ones == {i \in 1..w : input.bits[i] = 1}
             hot == IF ones = {} THEN w + 1
                    ELSE IF IsTrue(lsb_is_prio)
                    THEN CHOOSE i \in ones : \A j \in ones : i <= j
                    ELSE CHOOSE i \in ones : \A j \in ones : i >= j
         IN  [st |-> "ok",
              value |-> MakeBits(FALSE, [i \in 1..(w + 1) |->
                                            IF i = hot THEN 1 ELSE 0])]

\* The function RunBuiltinOneHotSel passes to RunBinaryBuiltin.  The loop
\* reads selector bit i for every case i.  A selector with fewer bits than
\* there are cases is read past its end, which is undefined: the build
\* crashes or reads some bit, so the result is the set of the outcomes.  A
\* selected case without bits is an error; one of another width than the
\* first case fails the CHECK of bits_ops::Or.
RunBuiltinOneHotSel(selector, cases_array) ==
    LET cases == cases_array.values
        loop(selected) ==
            LET bad == {i \in selected :
                           \/ ~HasBits(cases[i])
                           \/ Len(cases[i].bits) # Len(cases[1].bits)}
                first == CHOOSE i \in bad : \A j \in bad : i <= j
            IN  IF bad # {}
                THEN IF ~HasBits(cases[first]) THEN [st |-> "InvalidArgument"]
                     ELSE [st |-> "crash"]
                ELSE [st |-> "ok",
                      value |-> [cases[1] EXCEPT
                                   !.bits = [k \in 1..Len(cases[1].bits) |->
                                                IF \E i \in selected :
                                                      cases[i].bits[k] = 1
                                                THEN 1 ELSE 0]]]
        within == {i \in 1..Len(cases) :
                      i <= Len(selector.bits) /\ selector.bits[i] = 1}
        beyond == {i \in 1..Len(cases) : i > Len(selector.bits)}
    IN  IF ~HasBits(selector) THEN [st |-> "InvalidArgument"]
        ELSE IF cases_array.tag \notin {"Array", "Tuple"}
        THEN [st |-> "InvalidArgument"]
        ELSE IF cases = <<>> THEN [st |-> "Internal"]
        ELSE IF ~HasBits(cases[1]) THEN [st |-> "InvalidArgument"]
        ELSE IF beyond = {} THEN loop(within)
        ELSE [st |-> "undefined",
              results |-> {[st |-> "crash"]}
                            \cup {loop(within \cup read) : read \in SUBSET beyond}]

\* The function RunBuiltinSignex passes to RunBinaryBuiltin.
RunBuiltinSignex(value, type_value) ==
    IF ~HasBits(value) \/ ~HasBits(type_value) THEN [st |-> "InvalidArgument"]
    ELSE LET old_bit_count == GetBitCount(value)
             new_bit_count == GetBitCount(type_value)
         IN  IF old_bit_count > new_bit_count THEN [st |-> "Internal"]
             ELSE [st |-> "ok",
                   value |-> MakeBits(ValueIsSigned(value),
                                      SignExtend(value.bits, new_bit_count))]

\* The function RunBuiltinBitSlice passes to RunTernaryBuiltin.  The start
\* is read as a signed 64-bit number and held at the width of the subject;
\* Bits::Slice CHECKs that the window starts at 0 or above and ends within
\* the subject.
RunBuiltinBitSlice(subject, start, width) ==
    IF ~HasBits(subject) \/ ~HasBits(start) \/ ~HasBits(width)
    THEN [st |-> "InvalidArgument"]
    ELSE LET subject_bits == subject.bits
             start_value == GetBitValueInt64(start)
             start_index == IF start_value >= Len(subject_bits)
                            THEN Len(subject_bits) ELSE start_value
             bit_count == GetBitCount(width)
         IN  IF start_index < 0 \/ start_index + bit_count > Len(subject_bits)
             THEN [st |-> "crash"]
             ELSE [st |-> "ok",
                   value |-> MakeBits(FALSE, BitsSlice(subject_bits, start_index,
                                                      bit_count))]

\* The function RunBuiltinBitSliceUpdate passes to RunTernaryBuiltin.
\* bits_ops::BitSliceUpdate writes the bits of the update over those of the
\* subject from start_index up, as far as the subject reaches.
RunBuiltinBitSliceUpdate(subject, start, update_value) ==
    IF ~HasBits(subject) \/ ~HasBits(start) \/ ~HasBits(update_value)
    THEN [st |-> "InvalidArgument"]
    ELSE LET subject_bits == subject.bits
             start_index == BitsToUint(start.bits)
             update_value_bits == update_value.bits
         IN  IF start_index >= Len(subject_bits)
             THEN [st |-> "ok", value |-> MakeBits(FALSE, subject_bits)]
             ELSE [st |-> "ok",
                   value |-> MakeBits(FALSE,
                       [i \in 1..Len(subject_bits) |->
                           IF i > start_index
                              /\ i - start_index <= Len(update_value_bits)
                           THEN update_value_bits[i - start_index]
                           ELSE subject_bits[i]])]

\* RunBinaryBuiltin for the function fn of this builtin: b is popped first,
\* then a, both before fn runs; the value of fn(a, b) is pushed.  A result
\* that is undefined gives the outcome of each of its results.
RunBinaryBuiltin(builtin, stack, frames) ==
    IF Len(stack) < 2 THEN Err("Internal", stack, frames)            \* RET_CHECK
    ELSE LET b == Back(stack)
             a == Back(PopBack(stack))
             rest == PopBack(PopBack(stack))
             fn_result ==
                 CASE builtin = "gate" -> RunBuiltinGate(a, b)
                   [] builtin = "one_hot" -> RunBuiltinOneHot(a, b)
                   [] builtin = "one_hot_sel" -> RunBuiltinOneHotSel(a, b)
                   [] builtin = "signex" -> RunBuiltinSignex(a, b)
             outcome(r) == IF r.st = "ok" THEN Ok(Append(rest, r.value), frames)
                           ELSE Err(r.st, rest, frames)
         IN  IF fn_result.st = "undefined"
             THEN [st |-> "undefined", stack |-> rest, frames |-> frames,
                   outcomes |-> {outcome(r) : r \in fn_result.results}]
             ELSE outcome(fn_result)

\* RunTernaryBuiltin for the function fn of this builtin: c, b and a are
\* popped in this order; the value of fn(a, b, c) is pushed.  RunBuiltinSlice
\* passes InterpValue::Slice and RunBuiltinUpdate InterpValue::Update.
RunTernaryBuiltin(builtin, stack, frames) ==
    IF Len(stack) < 3 THEN Err("Internal", stack, frames)            \* RET_CHECK
    ELSE LET c == stack[Len(stack)]
             b == stack[Len(stack) - 1]
             a == stack[Len(stack) - 2]
             rest == SubSeq(stack, 1, Len(stack) - 3)
             fn_result ==
                 CASE builtin = "bit_slice" -> RunBuiltinBitSlice(a, b, c)
                   [] builtin = "bit_slice_update" ->
                        RunBuiltinBitSliceUpdate(a, b, c)
                   [] builtin = "slice" -> InterpValueSlice(a, b, c)
                   [] builtin = "update" -> InterpValueUpdate(a, b, c)
         IN  IF fn_result.st = "ok"
             THEN Ok(Append(rest, fn_result.value), frames)
             ELSE Err(fn_result.st, rest, frames)

\* RunBuiltinFn whose builtins all push a Token and skip the instruction
\* after the Call.
RunBuiltinFnSkipsReturn(bytecode, builtin, stack, frames) ==
    IF builtin = "map" THEN RunBuiltinMap(bytecode, stack, frames)
    ELSE Ok(Append(stack, MakeToken), IncrementPc(frames))

\* RunBuiltinFn: the switch over the builtin.  stack and frames are those
\* EvalCall has left.
RunBuiltinFn(bytecode, builtin, stack, frames) ==
    CASE builtin = "add_with_carry" -> RunBuiltinAddWithCarry(bytecode, stack, frames)
      [] builtin = "and_reduce" -> RunBuiltinAndReduce(bytecode, stack, frames)
      [] builtin = "assert_eq" -> RunBuiltinAssertEq(bytecode, stack, frames)
      [] builtin = "assert_lt" -> RunBuiltinAssertLt(bytecode, stack, frames)
      [] builtin \in {"bit_slice", "bit_slice_update", "slice", "update"} ->
           RunTernaryBuiltin(builtin, stack, frames)
      [] builtin = "clz" -> RunBuiltinClz(bytecode, stack, frames)
      [] builtin = "cover" ->
           \* Covers are a no-op in the interpreter.
           Ok(Append(stack, MakeToken), frames)
      [] builtin = "ctz" -> RunBuiltinCtz(bytecode, stack, frames)
      [] builtin = "enumerate" -> RunBuiltinEnumerate(bytecode, stack, frames)
      [] builtin = "fail" ->
           IF stack = <<>> THEN Err("Internal", stack, frames)
           ELSE Err("Failure", PopBack(stack), frames)
      [] builtin \in {"gate", "one_hot", "one_hot_sel", "signex"} ->
           RunBinaryBuiltin(builtin, stack, frames)
      [] builtin = "map" -> RunBuiltinMap(bytecode, stack, frames)
      [] builtin = "or_reduce" -> RunBuiltinOrReduce(bytecode, stack, frames)
      [] builtin = "range" -> RunBuiltinRange(bytecode, stack, frames)
      [] builtin = "rev" -> RunBuiltinRev(bytecode, stack, frames)
      [] builtin = "trace" -> Err("Internal", stack, frames)
      [] builtin = "xor_reduce" -> RunBuiltinXorReduce(bytecode, stack, frames)
      [] OTHER -> Err("Unimplemented", stack, frames)

\* EvalCall: a builtin runs in place after the caller's pc has advanced; a
\* user-defined function gets a frame of its own.
EvalCall(bytecode) ==
    IF stack_ = <<>> THEN Err("Internal", stack_, frames_)
    ELSE
      LET callee == Back(stack_)
          popped == PopBack(stack_)
      IN  IF callee.tag = "Function" /\ "builtin" \in DOMAIN callee
          THEN RunBuiltinFn(bytecode, callee.builtin, popped,
                            IncrementPc(frames_))
          ELSE IF ~IsFunction(callee)
          THEN \* callee.GetFunction() fails
               Err("InvalidArgument", popped, frames_)
          ELSE
            LET r == GetBytecodeFn(callee.fn, bytecode.invocation,
                                   bytecode.bindings)
                \* Store the _return_ PC.
                caller == IncrementPc(frames_)
                num_args == bytecode_fns[callee.fn].params
                a == PopArgs(popped, [k \in 1..num_args |-> MakeToken], 0, num_args)
            IN  IF r.st # "ok" THEN Err(r.st, popped, frames_)
                ELSE IF a.st # "ok" THEN Err(a.st, a.stack, caller)
                ELSE Ok(a.stack,
                        Append(caller,
                               Frame(r.bf, a.args, r.type_info,
                                     bytecode.bindings, <<>>)))

-----------------------------------------------------------------------------
(* Run: the dispatch loop. *)

\* Lines 89-97 of Run, after EvalNextInstruction returned OK for the
\* instruction op fetched at old_pc of a frame with these bytecodes; pc is
\* the pc of that frame now.
JumpCheck(op, old_pc, pc, bytecodes) ==
    IF op = "Call" THEN "ok"
    ELSE IF pc # old_pc + 1
    THEN IF ~PcBelowSize(pc, Len(bytecodes)) THEN "out_of_range"  \* bytecodes.at
         ELSE IF bytecodes[pc + 1].op # "JumpDest" THEN "Internal"
         ELSE "ok"
    ELSE "ok"

\* AfterSwitch with the handler's error dropped: execution goes on.
AfterSwitchDropsError(o, breaks) ==
    [st |-> "ok", stack |-> o.stack,
     frames |-> IF breaks THEN IncrementPc(o.frames) ELSE o.frames]

\* The tail of EvalNextInstruction: a case that breaks out of the switch
\* reaches frame->IncrementPc(); a case that returns does not.
AfterSwitch(o, breaks) ==
    IF o.st = "ok" /\ breaks THEN [o EXCEPT !.frames = IncrementPc(@)] ELSE o

\* One iteration of the inner loop of Run for an instruction with opcode op,
\* whose handler leaves o.
RunIteration(op, o, breaks) ==
    /\ status = "running"
    /\ frames_ # <<>>
    /\ PcBelowSize(CurFrame.pc, Len(BytecodesOf(CurFrame)))
    /\ CurBytecode.op = op
    /\ LET e == AfterSwitch(o, breaks)
           chk == IF e.st # "ok" THEN e.st
                  ELSE JumpCheck(op, CurFrame.pc, e.frames[Len(frames_)].pc,
                                 BytecodesOf(CurFrame))
       IN  /\ Len(e.stack) <= MaxStack
           /\ frames_' = e.frames
           /\ stack_' = e.stack
           /\ status' = IF chk = "ok" THEN "running" ELSE chk
           /\ call_sites' = IF Len(e.frames) > Len(frames_)
                            THEN Append(call_sites, CurFrame.pc)
                            ELSE call_sites
           /\ channels' = IF "channels" \in DOMAIN e THEN e.channels
                          ELSE channels
           /\ log' = IF "message" \in DOMAIN e THEN Append(log, e.message)
                     ELSE log
    /\ UNCHANGED <<bytecode_fns, result, import_data>>

RunLiteral == RunIteration("Literal", EvalLiteral(CurBytecode), TRUE)
RunPop == RunIteration("Pop", EvalPop(CurBytecode), TRUE)
RunLoad == RunIteration("Load", EvalLoad(CurBytecode), TRUE)
RunStore == RunIteration("Store", EvalStore(CurBytecode), TRUE)
\* A call whose outcome is undefined takes any one of its outcomes.
RunCall ==
    /\ status = "running"
    /\ frames_ # <<>>
    /\ PcBelowSize(CurFrame.pc, Len(BytecodesOf(CurFrame)))
    /\ CurBytecode.op = "Call"
    /\ LET o == EvalCall(CurBytecode)
       IN  \E e \in (IF o.st = "undefined" THEN o.outcomes ELSE {o}) :
               RunIteration("Call", e, FALSE)

\* PopFrame that also advances the frame it returns to.
PopFrameAndAdvance ==
    /\ status = "running"
    /\ frames_ # <<>>
    /\ ~PcBelowSize(CurFrame.pc, Len(BytecodesOf(CurFrame)))
    /\ frames_' = IF Len(frames_) > 1 THEN IncrementPc(PopBack(frames_))
                  ELSE PopBack(frames_)
    /\ call_sites' = PopBack(call_sites)
    /\ UNCHANGED <<bytecode_fns, stack_, status, result, channels, import_data,
                   log>>

RunJumpDest == RunIteration("JumpDest", EvalJumpDest(CurBytecode), TRUE)
RunJumpRel == RunIteration("JumpRel", EvalJumpRel(CurBytecode), FALSE)
RunJumpRelIf ==
    RunIteration("JumpRelIf", EvalJumpRelIf(CurBytecode),
                 ~(stack_ # <<>> /\ IsTrue(Back(stack_))))

RunSlice == RunIteration("Slice", EvalSlice(CurBytecode), TRUE)
RunWidthSlice == RunIteration("WidthSlice", EvalWidthSlice(CurBytecode), TRUE)

\* Line 101: the end of a function; frames_.pop_back().
PopFrame ==
    /\ status = "running"
    /\ frames_ # <<>>
    /\ ~PcBelowSize(CurFrame.pc, Len(BytecodesOf(CurFrame)))
    /\ frames_' = PopBack(frames_)
    /\ call_sites' = PopBack(call_sites)
    /\ UNCHANGED <<bytecode_fns, stack_, status, result, channels, import_data,
                   log>>

\* What a build can make of stack_.back() on an empty vector (undefined
\* behaviour): some value, or a crash.
GarbageValues == {MakeToken, MakeUBits(1, 0)}

\* Interpret, lines 55-56: Run returned OkStatus; return stack_.back().
InterpretReturn ==
    /\ status = "running"
    /\ frames_ = <<>>
    /\ IF stack_ # <<>>
       THEN status' = "ok" /\ result' = <<Back(stack_)>>
       ELSE \/ status' = "crash" /\ result' = <<>>
            \/ \E v \in GarbageValues : status' = "ok" /\ result' = <<v>>
    /\ UNCHANGED <<bytecode_fns, frames_, stack_, call_sites, channels,
                   import_data, log>>

-----------------------------------------------------------------------------
(* Interpret on call/return programs. *)

ValA == MakeUBits(2, 1)
ValB == MakeUBits(2, 2)

\* Function id of the bf given to Interpret, and of the callee.
EntryFn == "entry"
CalleeFn == "callee"

CallAlphabet ==
    {Literal(ValA), Literal(ValB), Literal(MakeFunction(CalleeFn)),
     Call("inv", <<>>), Nullary("Pop")}
\* The callee bodies tried: empty, reading a parameter, storing, popping.
CalleeBodies ==
    {<<>>, <<Load(0)>>, <<Load(1)>>, <<Nullary("Pop")>>,
     <<Load(0), Store(1)>>, <<Load(0), Store(MaxParams + 1)>>}

\* BytecodeInterpreter::BytecodeInterpreter: one frame holding args.
InitInterpreter(imports, fns, args) ==
    /\ import_data = imports
    /\ channels = [h \in {"c1", "c2"} |-> <<>>]
    /\ log = <<>>
    /\ bytecode_fns = fns
    /\ frames_ = <<Frame(EntryFn, args, GetRootTypeInfo(fns[EntryFn].owner),
                         <<>>, <<>>)>>
    /\ stack_ = <<>>
    /\ status = "running"
    /\ result = <<>>
    /\ call_sites = <<-1>>

InitCall ==
    \E entry \in SeqsUpTo(CallAlphabet, MaxLen),
       body \in CalleeBodies,
       n \in 0..MaxParams :
        InitInterpreter(
            [cache |-> TRUE, instantiations |-> {}],
            [f \in {EntryFn, CalleeFn} |->
                IF f = EntryFn THEN [parametric |-> FALSE, owner |-> "m",
                                     params |-> 0, bytecodes |-> entry]
                ELSE [parametric |-> FALSE, owner |-> "m",
                      params |-> n, bytecodes |-> body]],
            <<>>)

NextCall ==
    \/ RunLiteral
    \/ RunPop
    \/ RunLoad
    \/ RunStore
    \/ RunCall
    \/ PopFrame
    \/ InterpretReturn

SpecCall == InitCall /\ [][NextCall]_vars

-----------------------------------------------------------------------------
(* Claims about call and return, checked under SpecCall. *)

\* The instruction about to be fetched, when there is one.
CanFetch ==
    /\ status = "running"
    /\ frames_ # <<>>
    /\ PcBelowSize(CurFrame.pc, Len(BytecodesOf(CurFrame)))

\* The absl::Status codes a handler can return.
ErrorCodes ==
    {"Internal", "InvalidArgument", "Unavailable", "Failure", "Unimplemented"}

\* C1: call return.  Once the pc of a frame pushed by a Call at index p of
\* its caller reaches the end of its bytecodes, the step taken pops that
\* frame and nothing else, and the caller, now on top, is at p + 1, the
\* instruction after its Call; once the last frame is popped, Interpret
\* returns the value on top of the stack.
C1_CallReturn ==
    [][/\ (status = "running" /\ frames_ # <<>> /\ ~CanFetch) =>
            /\ frames_' = PopBack(frames_)
            /\ stack_' = stack_
            /\ status' = "running"
            /\ Len(frames_) > 1 =>
                 /\ Back(frames_').pc = Back(call_sites) + 1
                 /\ BytecodesOf(Back(frames_'))[Back(call_sites) + 1].op = "Call"
       /\ (status = "running" /\ frames_ = <<>> /\ stack_ # <<>>) =>
            (status' = "ok" /\ result' = <<Back(stack_)>>)]_vars

\* A callee that executed an instruction has been popped and the caller is
\* about to execute the instruction after its Call.
C1_Witness ==
    /\ CanFetch
    /\ Len(frames_) = 1
    /\ CurFrame.pc >= 1
    /\ BytecodesOf(CurFrame)[CurFrame.pc].op = "Call"
    /\ bytecode_fns[CalleeFn].bytecodes # <<>>

\* The state a Call to a user-defined callee of n parameters is in when the
\* stack holds the callee above at least n values.
CallReady ==
    /\ CanFetch
    /\ CurBytecode.op = "Call"
    /\ stack_ # <<>>
    /\ IsFunction(Back(stack_))
    /\ Len(stack_) >= bytecode_fns[Back(stack_).fn].params + 1

\* C4: a Call on [..., arg0, ..., arg(n-1), callee] removes exactly those
\* n + 1 values and pushes one frame with pc = 0 whose slots are arg0 ..
\* arg(n-1) in that order.
C4_CallFrame ==
    [][CallReady =>
        LET n == bytecode_fns[Back(stack_).fn].params
            below == Len(stack_) - n - 1
        IN  /\ status' = "running"
            /\ stack_' = SubSeq(stack_, 1, below)
            /\ Len(frames_') = Len(frames_) + 1
            /\ Back(frames_').pc = 0
            /\ Back(frames_').bf = Back(stack_).fn
            /\ Back(frames_').slots = [k \in 1..n |-> stack_[below + k]]
            /\ PopBack(frames_') = IncrementPc(frames_)]_vars

\* A two-parameter callee was called with two different arguments.
C4_Witness ==
    /\ Len(frames_) = 2
    /\ CurFrame.pc = 0
    /\ CurFrame.slots = <<ValA, ValB>>
    /\ frames_[1].pc = MaxLen

\* What the handler of the instruction about to be fetched leaves.
CallHandlerOutcome ==
    CASE CurBytecode.op = "Literal" -> EvalLiteral(CurBytecode)
      [] CurBytecode.op = "Pop" -> EvalPop(CurBytecode)
      [] CurBytecode.op = "Load" -> EvalLoad(CurBytecode)
      [] CurBytecode.op = "Store" -> EvalStore(CurBytecode)
      [] CurBytecode.op = "Call" -> EvalCall(CurBytecode)

\* C6: errors propagate immediately.  When a handler returns an error,
\* Interpret ends with that same error and no value, and once Interpret has
\* ended with an error nothing (no instruction of any frame) runs any more.
C6_ErrorsPropagate ==
    [][/\ status \notin ErrorCodes
       /\ (CanFetch /\ CallHandlerOutcome.st \in ErrorCodes) =>
            (status' = CallHandlerOutcome.st /\ result' = <<>>)]_vars

\* An error was returned inside a callee while the caller still had
\* instructions to run.
C6_Witness ==
    /\ status \in ErrorCodes
    /\ Len(frames_) = 2
    /\ PcBelowSize(frames_[1].pc, Len(BytecodesOf(frames_[1])))

\* C2: whenever the dispatch loop ends with an empty value stack, Interpret
\* returns an Internal error.
C2_EmptyStackIsInternalError ==
    (status # "running" /\ frames_ = <<>> /\ stack_ = <<>>) => status = "Internal"

-----------------------------------------------------------------------------
(* Interpret on programs of stores and loads. *)

StoreAlphabet ==
    {Literal(ValA), Literal(ValB)}
        \cup {Store(i) : i \in 0..MaxSlot} \cup {Load(i) : i \in 0..MaxSlot}

InitStore ==
    \E entry \in SeqsUpTo(StoreAlphabet, MaxStoreLen),
       args \in SeqsUpTo({ValB}, 1) :
        InitInterpreter(
            [cache |-> TRUE, instantiations |-> {}],
            [f \in {EntryFn} |-> [parametric |-> FALSE, owner |-> "m",
                                  params |-> Len(args), bytecodes |-> entry]], args)

NextStore ==
    \/ RunLiteral
    \/ RunLoad
    \/ RunStore
    \/ PopFrame
    \/ InterpretReturn

SpecStore == InitStore /\ [][NextStore]_vars

\* C3: a Store into slot i >= |slots| succeeds; afterwards |slots| = i + 1,
\* slots[i] is the stored value, every new slot below i holds Token and
\* every slot that existed is unchanged.
C3_StoreGrowsSlots ==
    [][(/\ CanFetch
        /\ CurBytecode.op = "Store"
        /\ stack_ # <<>>
        /\ CurBytecode.slot >= Len(CurFrame.slots)) =>
          LET i == CurBytecode.slot
              old == CurFrame.slots
              new == Back(frames_').slots
          IN  /\ status' = "running"
              /\ Len(new) = i + 1
              /\ new[i + 1] = Back(stack_)
              /\ \A k \in (Len(old) + 1)..i : new[k] = MakeToken
              /\ \A k \in 1..Len(old) : new[k] = old[k]]_vars

\* C30: Load(i) with i < |slots| pushes a copy of slot i and leaves the slots
\* unchanged; with i >= |slots| it returns an error and leaves the value
\* stack and the slots unchanged.
C30_LoadCopiesSlot ==
    [][(CanFetch /\ CurBytecode.op = "Load") =>
          LET i == CurBytecode.slot
              slots == CurFrame.slots
          IN  /\ Back(frames_').slots = slots
              /\ IF i < Len(slots)
                 THEN status' = "running" /\ stack_' = Append(stack_, slots[i + 1])
                 ELSE status' \in ErrorCodes /\ stack_' = stack_]_vars

\* A Load of a slot that a Store has filled has just pushed its value.
C30_Witness ==
    /\ status = "running"
    /\ frames_ # <<>>
    /\ CurFrame.pc = 3
    /\ BytecodesOf(CurFrame)[2].op = "Store"
    /\ BytecodesOf(CurFrame)[3] = Load(BytecodesOf(CurFrame)[2].slot)
    /\ stack_ = <<ValA>>
    /\ ValA \in {CurFrame.slots[k] : k \in 1..Len(CurFrame.slots)}

-----------------------------------------------------------------------------
(* Interpret on programs of jumps. *)

JumpTargets == (1 - MaxJump)..MaxJump

JumpAlphabet ==
    {Literal(MakeBool(TRUE)), Literal(MakeBool(FALSE)), Nullary("JumpDest")}
        \cup {JumpRel(d) : d \in JumpTargets}
        \cup {JumpRelIf(d) : d \in JumpTargets}

InitJump ==
    \E entry \in SeqsUpTo(JumpAlphabet, MaxJumpLen) :
        InitInterpreter(
            [cache |-> TRUE, instantiations |-> {}],
            [f \in {EntryFn} |-> [parametric |-> FALSE, owner |-> "m",
                                  params |-> 0, bytecodes |-> entry]], <<>>)

NextJump ==
    \/ RunLiteral
    \/ RunJumpDest
    \/ RunJumpRel
    \/ RunJumpRelIf
    \/ PopFrame
    \/ InterpretReturn

SpecJump == InitJump /\ [][NextJump]_vars

\* A JumpRel, or a JumpRelIf whose condition is true, is about to execute.
JumpTaken ==
    /\ CanFetch
    /\ \/ CurBytecode.op = "JumpRel"
       \/ CurBytecode.op = "JumpRelIf" /\ stack_ # <<>> /\ IsTrue(Back(stack_))

\* The pc the jump about to execute lands on holds a JumpDest.
LandsOnJumpDest ==
    LET pc == CurFrame.pc + CurBytecode.target
    IN  /\ PcBelowSize(pc, Len(BytecodesOf(CurFrame)))
        /\ BytecodesOf(CurFrame)[pc + 1].op = "JumpDest"

\* C5: every taken jump, whatever its displacement, whose landing pc does
\* not hold a JumpDest makes Run end with an Internal error (so nothing at
\* the landing site is executed).
C5_JumpMustLandOnJumpDest ==
    [][(JumpTaken /\ ~LandsOnJumpDest) => status' = "Internal"]_vars

-----------------------------------------------------------------------------
(* Interpret on programs that slice a bits value. *)

\* Every bits value, of either tag, of width at most w.
BitsValues(w) ==
    UNION {{MakeBits(sg, b) : sg \in BOOLEAN, b \in AllBits(k)} : k \in 0..w}

\* The signed start and limit values tried.
IndexValues == {MakeSBits(SliceIndexBits, n) : n \in (0 - MaxIndex)..MaxIndex}
\* The unsigned start values tried for a WidthSlice.
StartValues == {MakeUBits(SliceIndexBits, n) : n \in 0..MaxIndex}

\* Scenario D: u8 0b11001010 [-4 : -1].
ScenarioD ==
    <<Literal(MakeUBits(8, 202)), Literal(MakeSBits(SliceIndexBits, 0 - 4)),
      Literal(MakeSBits(SliceIndexBits, 0 - 1)), Nullary("Slice")>>

\* Besides the starts and limits of one width: limits one bit wider than the
\* start, starts and limits that have no bits, and a basis that is a token
\* or an enum.
SlicePrograms ==
    LET wider == {MakeSBits(SliceIndexBits + 1, n) : n \in 0..MaxIndex}
        no_bits == {MakeToken, MakeTuple(<<>>)}
    IN  {<<Literal(b), Literal(s), Literal(l), Nullary("Slice")>> :
            b \in BitsValues(MaxBasisWidth), s \in IndexValues,
            l \in IndexValues \cup wider \cup no_bits}
        \cup {<<Literal(b), Literal(s), Literal(l), Nullary("Slice")>> :
                b \in BitsValues(MaxBasisWidth), s \in wider \cup no_bits,
                l \in IndexValues}
        \cup {<<Literal(b), Literal(s), Literal(l), Nullary("Slice")>> :
                b \in {MakeToken, MakeEnum(FALSE, <<1, 0, 1>>)},
                s \in IndexValues \cup {MakeEnum(FALSE, <<1, 0>>)},
                l \in IndexValues}
        \cup {ScenarioD}

\* The starts include one of 65 bits whose top bit is set, the smallest
\* value that does not fit in a uint64_t, and a token; the bases a token, an
\* array, a tuple and an enum.
WidthSlicePrograms ==
    LET wide == MakeBits(FALSE, [i \in 1..65 |-> IF i = 65 THEN 1 ELSE 0])
        others == {MakeToken, MakeArray(<<ValA, ValB>>), MakeTuple(<<ValA>>),
                   MakeEnum(FALSE, <<1, 0, 1>>)}
    IN  {<<Literal(b), Literal(s), WidthSlice(sg, w)>> :
            b \in BitsValues(MaxBasisWidth) \cup others,
            s \in StartValues \cup {wide, MakeToken},
            sg \in BOOLEAN, w \in 0..MaxSliceWidth}

InitSlice ==
    \E entry \in SlicePrograms \cup WidthSlicePrograms :
        InitInterpreter(
            [cache |-> TRUE, instantiations |-> {}],
            [f \in {EntryFn} |-> [parametric |-> FALSE, owner |-> "m",
                                  params |-> 0, bytecodes |-> entry]], <<>>)

NextSlice ==
    \/ RunLiteral
    \/ RunSlice
    \/ RunWidthSlice
    \/ PopFrame
    \/ InterpretReturn

SpecSlice == InitSlice /\ [][NextSlice]_vars

\* A Slice is about to execute on a basis, a start and a limit: three bits
\* values, the start and the limit of one width.
SliceReady ==
    /\ CanFetch /\ CurBytecode.op = "Slice" /\ Len(stack_) >= 3
    /\ \A i \in 0..2 : IsBits(stack_[Len(stack_) - i])
    /\ GetBitCount(Back(stack_)) = GetBitCount(stack_[Len(stack_) - 1])

\* A start or limit n made relative to the width w and clamped to [0, w].
Normalized(n, w) ==
    LET moved == IF n < 0 THEN n + w ELSE n
    IN  IF moved < 0 THEN 0 ELSE IF moved > w THEN w ELSE moved

\* C7: Slice succeeds for every start and limit, and pushes an unsigned
\* value whose width is max(0, limit - start) of the normalized start and
\* limit (width 0 when the start is at or above the limit).
C7_SliceAlwaysSucceeds ==
    [][SliceReady =>
        LET w == GetBitCount(stack_[Len(stack_) - 2])
            start == Normalized(BitsToInt(stack_[Len(stack_) - 1].bits), w)
            limit == Normalized(BitsToInt(stack_[Len(stack_)].bits), w)
        IN  /\ status' = "running"
            /\ Len(stack_') = Len(stack_) - 2
            /\ Back(stack_').tag = "UBits"
            /\ GetBitCount(Back(stack_')) =
                  IF limit - start > 0 THEN limit - start ELSE 0]_vars

\* C8 as stated: scenario D yields the 3-bit unsigned value 0b101.
C8_ScenarioD_AsStated ==
    (bytecode_fns[EntryFn].bytecodes = ScenarioD /\ status = "ok") =>
        result = <<MakeUBits(3, 5)>>

\* C8, amended: Slice on u8 0b11001010 with start = -4 and limit = -1 pushes
\* the unsigned 3-bit value 0b100 (bits 4, 5 and 6 of the basis).
C8_ScenarioD ==
    (bytecode_fns[EntryFn].bytecodes = ScenarioD /\ status = "ok") =>
        result = <<MakeUBits(3, 4)>>

\* Scenario D ran to its end.
C8_Witness ==
    /\ bytecode_fns[EntryFn].bytecodes = ScenarioD
    /\ status = "ok"
    /\ stack_ # <<>>

\* A WidthSlice is about to execute on a basis that has bits and a start
\* that has a uint64_t value.
WidthSliceReady ==
    /\ CanFetch
    /\ CurBytecode.op = "WidthSlice"
    /\ Len(stack_) >= 2
    /\ FitsInUint64(Back(stack_))
    /\ HasBits(stack_[Len(stack_) - 1])

\* C9: WidthSlice always pushes a value of the target width whose tag
\* follows the target signedness, also when start >= basis_width, where the
\* value pushed is zero.
C9_WidthSliceTargetType ==
    [][WidthSliceReady =>
        LET type == CurBytecode.type
            start == BitsToUint(Back(stack_).bits)
            basis == stack_[Len(stack_) - 1]
        IN  /\ status' = "running"
            /\ GetBitCount(Back(stack_')) = type.size
            /\ IsSigned(Back(stack_')) = type.signed
            /\ start >= GetBitCount(basis) =>
                  Back(stack_').bits = BitsOf(type.size, 0)]_vars

\* C10: for start < basis_width, bit j of the result is bit start + j of the
\* basis when start + j < basis_width and 0 otherwise: the basis is
\* zero-extended, never sign-extended.
C10_WidthSliceZeroExtends ==
    [][(WidthSliceReady
          /\ BitsToUint(Back(stack_).bits) < GetBitCount(stack_[Len(stack_) - 1])) =>
        LET start == BitsToUint(Back(stack_).bits)
            basis == stack_[Len(stack_) - 1]
        IN  /\ status' = "running"
            /\ GetBitCount(Back(stack_')) = CurBytecode.type.size
            /\ \A j \in 0..(CurBytecode.type.size - 1) :
                  Back(stack_').bits[j + 1] =
                      IF start + j < GetBitCount(basis)
                      THEN basis.bits[start + j + 1] ELSE 0]_vars

\* A WidthSlice has taken a window that passes the end of a signed basis
\* whose sign bit is set.
C10_Witness ==
    LET code == bytecode_fns[EntryFn].bytecodes
    IN  /\ status = "running"
        /\ Len(frames_) = 1
        /\ Len(code) = 3
        /\ code[3].op = "WidthSlice"
        /\ CurFrame.pc = 3
        /\ IsSigned(code[1].value)
        /\ FitsInUint64(code[2].value)
        /\ GetBitCount(code[1].value) > 0
        /\ Back(code[1].value.bits) = 1
        /\ BitsToUint(code[2].value.bits) < GetBitCount(code[1].value)
        /\ BitsToUint(code[2].value.bits) + code[3].type.size
              > GetBitCount(code[1].value)
        /\ Len(stack_) = 1
        /\ Back(Back(stack_).bits) = 0

-----------------------------------------------------------------------------
(* Aggregate values, concrete types and Cast. *)

\* Widest bits value or bits type of the cast programs.
MaxCastWidth == 3
\* Most elements of an array type of the cast programs.
MaxArraySize == 3


\* ConcreteType: BitsType, ArrayType, EnumType, TupleType, TokenType.
BitsType(is_signed, size) == [kind |-> "Bits", signed |-> is_signed, size |-> size]
ArrayType(element_type, size) == [kind |-> "Array", element |-> element_type, size |-> size]
EnumType(is_signed, size) == [kind |-> "Enum", signed |-> is_signed, size |-> size]
TupleType(members) == [kind |-> "Tuple", members |-> members]
TokenType == [kind |-> "Token"]

RECURSIVE SumBitCounts(_, _)
RECURSIVE GetTotalBitCount(_)
SumBitCounts(members, i) ==
    IF i > Len(members) THEN 0
    ELSE GetTotalBitCount(members[i]) + SumBitCounts(members, i + 1)
\* ConcreteType::GetTotalBitCount.
GetTotalBitCount(type) ==
    IF type.kind \in {"Bits", "Enum"} THEN type.size
    ELSE IF type.kind = "Array" THEN GetTotalBitCount(type.element) * type.size
    ELSE IF type.kind = "Tuple" THEN SumBitCounts(type.members, 1)
    ELSE 0

Cast(type) == [op |-> "Cast", type |-> type]

RECURSIVE FlattenValues(_, _, _)
RECURSIVE Flatten(_)
FlattenValues(values, i, accum) ==
    IF i > Len(values) THEN [st |-> "ok", value |-> MakeBits(FALSE, accum)]
    ELSE LET flat == Flatten(values[i])
         IN  IF flat.st # "ok" THEN flat
             ELSE FlattenValues(values, i + 1, BitsConcat(accum, flat.value.bits))
\* InterpValue::Flatten: the elements of an array concatenated, element 0 most
\* significant, as an unsigned bits value.
Flatten(v) ==
    IF IsArray(v) THEN FlattenValues(v.values, 1, <<>>)
    ELSE IF IsBits(v) THEN [st |-> "ok", value |-> v]
    ELSE [st |-> "InvalidArgument", value |-> v]

\* CastBitsToArray: element i is the i-th chunk of bits_per_element bits
\* counted from the most significant end, as an unsigned bits value.
CastBitsToArray(bits_value, array_type) ==
    LET bits_per_element == GetTotalBitCount(array_type.element)
        rev == BitsReverse(bits_value.bits)
    IN  MakeArray([i \in 1..array_type.size |->
            MakeBits(FALSE,
                     BitsReverse(BitsSlice(rev, (i - 1) * bits_per_element,
                                           bits_per_element)))])

\* CastBitsToEnum: an enum value of the target EnumDef with the bits of from.
CastBitsToEnum(bits_value, enum_type) == MakeEnum(enum_type.signed, bits_value.bits)

\* InterpValue::SignExt / ZeroExt: both also shrink; the tag is kept.
SignExt(v, new_bit_count) ==
    IF new_bit_count < Len(v.bits)
    THEN MakeBits(IsSigned(v), BitsSlice(v.bits, 0, new_bit_count))
    ELSE MakeBits(IsSigned(v), SignExtend(v.bits, new_bit_count))
ZeroExt(v, new_bit_count) ==
    IF new_bit_count < Len(v.bits)
    THEN MakeBits(IsSigned(v), BitsSlice(v.bits, 0, new_bit_count))
    ELSE MakeBits(IsSigned(v), ZeroExtend(v.bits, new_bit_count))

\* CastBitsToBits that extends by the signedness of the target type.
CastBitsToBitsByTarget(from, to_bits) ==
    LET from_bit_count == GetBitCount(from)
        to_bit_count == GetTotalBitCount(to_bits)
        result_bits == IF from_bit_count = to_bit_count THEN from.bits
                       ELSE IF to_bits.signed THEN SignExt(from, to_bit_count).bits
                       ELSE ZeroExt(from, to_bit_count).bits
    IN  MakeBits(to_bits.signed, result_bits)

\* EvalCast, lines 476-493: bits to bits.
CastBitsToBits(from, to_bits) ==
    LET from_bit_count == GetBitCount(from)
        to_bit_count == GetTotalBitCount(to_bits)
        result_bits == IF from_bit_count = to_bit_count THEN from.bits
                       ELSE IF IsSigned(from) THEN SignExt(from, to_bit_count).bits
                       ELSE ZeroExt(from, to_bit_count).bits
    IN  MakeBits(to_bits.signed, result_bits)

\* CastFromBits that leaves the source on the stack when the cast fails.
CastFromBitsKeepsSource(from, rest, to) ==
    IF to.kind = "Array"
    THEN IF GetBitCount(from) # GetTotalBitCount(to)
         THEN Err("InvalidArgument", Append(rest, from), frames_)
         ELSE Ok(Append(rest, CastBitsToArray(from, to)), frames_)
    ELSE IF to.kind = "Enum"
    THEN Ok(Append(rest, CastBitsToEnum(from, to)), frames_)
    ELSE IF to.kind # "Bits" THEN Err("InvalidArgument", Append(rest, from), frames_)
    ELSE Ok(Append(rest, CastBitsToBits(from, to)), frames_)

\* EvalCast, lines 448-497: the source is a bits value.
CastFromBits(from, rest, to) ==
    IF to.kind = "Array"
    THEN IF GetBitCount(from) # GetTotalBitCount(to)
         THEN Err("InvalidArgument", rest, frames_)
         ELSE Ok(Append(rest, CastBitsToArray(from, to)), frames_)
    ELSE IF to.kind = "Enum"
    THEN Ok(Append(rest, CastBitsToEnum(from, to)), frames_)
    ELSE IF to.kind # "Bits" THEN Err("InvalidArgument", rest, frames_)
    ELSE Ok(Append(rest, CastBitsToBits(from, to)), frames_)

EvalCast(bytecode) ==
    IF "type" \notin DOMAIN bytecode THEN Err("Internal", stack_, frames_)
    ELSE IF stack_ = <<>> THEN Err("Internal", stack_, frames_)
    ELSE
      LET from == Back(stack_)
          rest == PopBack(stack_)
          to == bytecode.type
      IN  IF IsArray(from)
          THEN IF to.kind # "Bits" THEN Err("InvalidArgument", rest, frames_)
               ELSE LET converted == Flatten(from)
                    IN  IF converted.st # "ok" THEN Err(converted.st, rest, frames_)
                        ELSE Ok(Append(rest, converted.value), frames_)
          ELSE IF IsEnum(from)
          THEN IF to.kind # "Bits" THEN Err("InvalidArgument", rest, frames_)
               ELSE Ok(Append(rest, MakeBits(ValueIsSigned(from), from.bits)), frames_)
          ELSE IF ~IsBits(from) THEN Err("InvalidArgument", rest, frames_)
          ELSE CastFromBits(from, rest, to)

RunCast == RunIteration("Cast", EvalCast(CurBytecode), TRUE)

-----------------------------------------------------------------------------
(* Interpret on cast programs. *)

\* Interpret on programs of one cast, of a cast followed by a cast to bits,
\* and on the two programs whose Cast finds no source or no payload.  The
\* sources are bits, enums, arrays and the values no cast accepts; the targets
\* are bits types, array types, enum types, a tuple type and the token type.
InitCast ==
    LET bits_types == {BitsType(sg, w) : sg \in BOOLEAN, w \in 0..MaxCastWidth}
        types ==
            bits_types
            \cup {ArrayType(BitsType(FALSE, w), n) :
                    w \in 0..MaxCastWidth, n \in 0..MaxArraySize}
            \cup {ArrayType(ArrayType(BitsType(FALSE, 1), 2), 1)}
            \cup {EnumType(sg, 2) : sg \in BOOLEAN} \cup {TupleType(<<>>), TokenType}
        values ==
            BitsValues(MaxCastWidth)
            \cup {MakeEnum(sg, b) : sg \in BOOLEAN, b \in AllBits(2)}
            \cup {MakeArray(<<>>),
                  MakeArray(<<MakeUBits(2, 1), MakeUBits(2, 2)>>),
                  MakeArray(<<MakeSBits(1, 1), MakeSBits(1, 0), MakeSBits(1, 1)>>),
                  MakeArray(<<MakeArray(<<MakeUBits(1, 1), MakeUBits(1, 0)>>)>>),
                  MakeArray(<<MakeTuple(<<>>)>>)}
            \cup {MakeTuple(<<MakeUBits(2, 1)>>), MakeToken, MakeChannel("c"),
                  MakeFunction(CalleeFn)}
        programs ==
            {<<Literal(v), Cast(t)>> : v \in values, t \in types}
            \cup {<<Literal(v), Cast(t), Cast(u)>> :
                    v \in values, t \in types, u \in bits_types}
            \cup {<<Cast(BitsType(FALSE, 1))>>, <<Literal(ValA), Nullary("Cast")>>}
    IN  \E entry \in programs :
            InitInterpreter(
                [cache |-> TRUE, instantiations |-> {}],
                [f \in {EntryFn} |-> [parametric |-> FALSE, owner |-> "m",
                                      params |-> 0, bytecodes |-> entry]], <<>>)

NextCast ==
    \/ RunLiteral
    \/ RunCast
    \/ PopFrame
    \/ InterpretReturn

SpecCast == InitCast /\ [][NextCast]_vars

\* A Cast with its type payload is about to execute on a source value.
CastReady ==
    CanFetch /\ CurBytecode.op = "Cast" /\ "type" \in DOMAIN CurBytecode
             /\ stack_ # <<>>

\* C11: a Cast of a bits value of width a to a bits type of width b pushes
\* a value of width b tagged by the target's signedness; its bit j is bit j of
\* the source for j < a, and above that the sign bit of a signed source or 0
\* for an unsigned one (so for a = b the pattern is kept and for b < a the low
\* b bits remain).
C11_CastBitsToBits ==
    [][(CastReady /\ IsBits(Back(stack_)) /\ CurBytecode.type.kind = "Bits") =>
        LET from == Back(stack_)
            to == CurBytecode.type
            a == GetBitCount(from)
            b == to.size
        IN  /\ status' = "running"
            /\ Len(stack_') = Len(stack_)
            /\ PopBack(stack_') = PopBack(stack_)
            /\ IsBits(Back(stack_'))
            /\ IsSigned(Back(stack_')) = to.signed
            /\ GetBitCount(Back(stack_')) = b
            /\ \A j \in 1..b :
                  Back(stack_').bits[j] =
                      IF j <= a THEN from.bits[j]
                      ELSE IF IsSigned(from) /\ a > 0 THEN from.bits[a]
                      ELSE 0]_vars

\* A signed source with its sign bit set has been cast to a wider unsigned
\* type, and a narrower source tag differs from the result tag.
C11_Witness ==
    LET code == bytecode_fns[EntryFn].bytecodes
    IN  /\ status = "running"
        /\ Len(code) = 2
        /\ CurFrame.pc = 2
        /\ code[2].op = "Cast"
        /\ "type" \in DOMAIN code[2]
        /\ code[2].type.kind = "Bits"
        /\ ~code[2].type.signed
        /\ IsBits(code[1].value)
        /\ IsSigned(code[1].value)
        /\ GetBitCount(code[1].value) > 0
        /\ code[2].type.size > GetBitCount(code[1].value)
        /\ Back(code[1].value.bits) = 1
        /\ Len(stack_) = 1
        /\ Back(stack_).tag = "UBits"
        /\ Back(Back(stack_).bits) = 1

\* C12: a Cast of an enum value to a bits type pushes a bits value with the
\* enum's bit pattern, tagged by the signedness of the target type whatever
\* the signedness of the enum.
C12_CastEnumToBits ==
    [][(CastReady /\ IsEnum(Back(stack_)) /\ CurBytecode.type.kind = "Bits") =>
        /\ status' = "running"
        /\ stack_' = Append(PopBack(stack_),
                            MakeBits(CurBytecode.type.signed, Back(stack_).bits))]_vars

\* The source is an array whose elements are all bits values.
ArrayOfBits(v) == IsArray(v) /\ \A i \in 1..Len(v.values) : IsBits(v.values[i])

RECURSIVE RowMajor(_, _)
\* The elements i.. of an array of bits, element i most significant.
RowMajor(values, i) ==
    IF i > Len(values) THEN <<>>
    ELSE RowMajor(values, i + 1) \o values[i].bits

\* C13: a Cast of an array (of bits) to a bits type pushes the row-major
\* flattening of the array, element 0 most significant, as one bits value
\* whose signedness is that of the target type.
C13_CastArrayToBits ==
    [][(CastReady /\ ArrayOfBits(Back(stack_)) /\ CurBytecode.type.kind = "Bits") =>
        /\ status' = "running"
        /\ stack_' = Append(PopBack(stack_),
                            MakeBits(CurBytecode.type.signed,
                                     RowMajor(Back(stack_).values, 1)))]_vars

\* The combinations of source and target type no cast supports.
CastUnsupported(from, to) ==
    \/ (IsArray(from) \/ IsEnum(from)) /\ to.kind # "Bits"
    \/ IsBits(from) /\ to.kind = "Array" /\ GetTotalBitCount(to) # GetBitCount(from)
    \/ IsBits(from) /\ to.kind \notin {"Bits", "Array", "Enum"}
    \/ ~(IsArray(from) \/ IsEnum(from) \/ IsBits(from))

\* C14: a Cast of an unsupported combination of source and target returns
\* InvalidArgument and pushes nothing: the source stays popped.
C14_CastUnsupported ==
    [][(CastReady /\ CastUnsupported(Back(stack_), CurBytecode.type)) =>
        /\ status' = "InvalidArgument"
        /\ stack_' = PopBack(stack_)]_vars

\* A Cast of a bits value to an array type of another total bit count has
\* returned InvalidArgument.
C14_Witness ==
    LET code == bytecode_fns[EntryFn].bytecodes
    IN  /\ status = "InvalidArgument"
        /\ Len(code) = 2
        /\ CurFrame.pc = 1
        /\ code[2].op = "Cast"
        /\ "type" \in DOMAIN code[2]
        /\ code[2].type.kind = "Array"
        /\ IsBits(code[1].value)
        /\ GetTotalBitCount(code[2].type) # GetBitCount(code[1].value)
        /\ stack_ = <<>>

\* C15: once a bits value v of width w has been cast to an array type of
\* total bit count w and then to a bits type of width w, v is on top of the
\* stack.
C15_CastRoundTrip ==
    LET code == bytecode_fns[EntryFn].bytecodes
    IN  (/\ status = "running"
         /\ Len(code) = 3
         /\ frames_ # <<>>
         /\ CurFrame.pc = 3
         /\ code[1].op = "Literal" /\ IsBits(code[1].value)
         /\ code[2].op = "Cast" /\ code[2].type.kind = "Array"
         /\ GetTotalBitCount(code[2].type) = GetBitCount(code[1].value)
         /\ code[3].op = "Cast" /\ code[3].type.kind = "Bits"
         /\ code[3].type.size = GetBitCount(code[1].value))
        => stack_ = <<code[1].value>>

-----------------------------------------------------------------------------
(* Tuples: ExpandTuple and CreateTuple. *)

\* Longest tuple of the tuple programs.
MaxTupleLen == 2

\* A CreateTuple with its NumElements payload.
CreateTuple(n) == [op |-> "CreateTuple", num_elements |-> n]

SeqReverse(s) == [i \in 1..Len(s) |-> s[Len(s) + 1 - i]]

\* PushElementsFrom in index order: the last element ends up on top.
PushElementsForward(stack, elements, i) ==
    stack \o elements

RECURSIVE PushElementsFrom(_, _, _)
\* The loop of EvalExpandTuple: for (i = tuple_size - 1; i >= 0; i--)
\* stack_.push_back(tuple.Index(i)); i is the 0-based index to push next.
PushElementsFrom(stack, elements, i) ==
    IF i < 0 THEN stack
    ELSE PushElementsFrom(Append(stack, elements[i + 1]), elements, i - 1)

\* EvalExpandTuple.  It reads stack_.back() without a check: on an empty
\* stack that is undefined behaviour, which a build turns into a crash or
\* into some non-tuple garbage value (and then the Failure status).  The
\* handler therefore yields a set of outcomes.
EvalExpandTuple(bytecode) ==
    IF stack_ = <<>>
    THEN {Err("crash", stack_, frames_), Err("Failure", stack_, frames_)}
    ELSE LET tuple == Back(stack_)
             rest == PopBack(stack_)
         IN  IF ~IsTuple(tuple) THEN {Err("Failure", rest, frames_)}
             ELSE {Ok(PushElementsFrom(rest, tuple.values, Len(tuple.values) - 1),
                      frames_)}

\* TupleFromPopped without the std::reverse.
TupleFromPoppedUnreversed(elements) == MakeTuple(elements)

\* EvalCreateTuple, lines 536-538: elements holds the values in the order
\* they were popped; the tuple is made of them reversed.
TupleFromPopped(elements) == MakeTuple(SeqReverse(elements))

\* EvalCreateTuple.
EvalCreateTuple(bytecode) ==
    LET tuple_size == bytecode.num_elements
    IN  IF Len(stack_) < tuple_size THEN Err("Internal", stack_, frames_)
        ELSE LET elements == [i \in 1..tuple_size |-> stack_[Len(stack_) + 1 - i]]
                 rest == SubSeq(stack_, 1, Len(stack_) - tuple_size)
             IN  Ok(Append(rest, TupleFromPopped(elements)), frames_)

RunExpandTuple ==
    \E o \in EvalExpandTuple(CurBytecode) : RunIteration("ExpandTuple", o, TRUE)
RunCreateTuple == RunIteration("CreateTuple", EvalCreateTuple(CurBytecode), TRUE)

-----------------------------------------------------------------------------
(* Interpret on tuple programs. *)

\* Interpret on programs of literals (at most one value below a tuple, or a
\* value that is no tuple), then ExpandTuple, then possibly CreateTuple.
InitTuple ==
    LET tuples == {MakeTuple(e) : e \in SeqsUpTo({ValA, ValB, MakeToken}, MaxTupleLen)}
        below == {<<>>, <<Literal(ValB)>>}
        tops == {<<Literal(t)>> : t \in tuples} \cup {<<>>, <<Literal(ValA)>>}
        programs ==
            {b \o t \o <<Nullary("ExpandTuple")>> : b \in below, t \in tops}
            \cup {b \o t \o <<Nullary("ExpandTuple"), CreateTuple(n)>> :
                    b \in below, t \in tops, n \in 0..MaxTupleLen}
    IN  \E entry \in programs :
            InitInterpreter(
                [cache |-> TRUE, instantiations |-> {}],
                [f \in {EntryFn} |-> [parametric |-> FALSE, owner |-> "m",
                                      params |-> 0, bytecodes |-> entry]], <<>>)

NextTuple ==
    \/ RunLiteral
    \/ RunExpandTuple
    \/ RunCreateTuple
    \/ PopFrame
    \/ InterpretReturn

SpecTuple == InitTuple /\ [][NextTuple]_vars

\* An ExpandTuple is about to execute on a tuple.
ExpandTupleReady ==
    CanFetch /\ CurBytecode.op = "ExpandTuple" /\ stack_ # <<>>
             /\ IsTuple(Back(stack_))

\* C17: ExpandTuple pops a tuple of length n and pushes its n elements so
\* that element k lies k places below the top (element 0 on top, element
\* n - 1 deepest); the stack below the tuple is unchanged.
C17_ExpandTupleOrder ==
    [][ExpandTupleReady =>
        LET t == Back(stack_).values
            n == Len(t)
        IN  /\ status' = "running"
            /\ Len(stack_') = Len(stack_) - 1 + n
            /\ SubSeq(stack_', 1, Len(stack_) - 1) = PopBack(stack_)
            /\ \A k \in 0..(n - 1) : stack_'[Len(stack_') - k] = t[k + 1]]_vars

\* A tuple of two different elements lying on another value has been
\* expanded.
C17_Witness ==
    LET code == bytecode_fns[EntryFn].bytecodes
    IN  /\ status = "running"
        /\ Len(code) >= 3
        /\ code[3].op = "ExpandTuple"
        /\ CurFrame.pc = 3
        /\ IsTuple(code[2].value)
        /\ Len(code[2].value.values) = 2
        /\ code[2].value.values[1] # code[2].value.values[2]
        /\ stack_ = <<code[1].value, code[2].value.values[2],
                      code[2].value.values[1]>>

\* The program is literals, the last one a tuple t, then ExpandTuple, then
\* CreateTuple(Len(t)), and the CreateTuple has just executed.
ExpandCreateDone ==
    LET code == bytecode_fns[EntryFn].bytecodes
        k == Len(code) - 2
    IN  /\ status = "running"
        /\ frames_ # <<>>
        /\ k >= 1
        /\ CurFrame.pc = Len(code)
        /\ code[k + 2].op = "CreateTuple"
        /\ code[k + 1].op = "ExpandTuple"
        /\ IsTuple(code[k].value)
        /\ code[k + 2].num_elements = Len(code[k].value.values)

\* The values of the first k literals of the program: the stack they build.
LiteralValues(k) == [i \in 1..k |-> bytecode_fns[EntryFn].bytecodes[i].value]

\* C16 as stated: ExpandTuple then CreateTuple(n) leaves the stack as it was
\* before the ExpandTuple, the original tuple on top.
C16_ExpandCreate_AsStated ==
    ExpandCreateDone =>
        stack_ = LiteralValues(Len(bytecode_fns[EntryFn].bytecodes) - 2)

\* C16, amended: ExpandTuple then CreateTuple(n) leaves the stack below the
\* tuple unchanged, and on top the tuple of the n elements of t in reverse
\* order.
C16_ExpandCreateReverses ==
    ExpandCreateDone =>
        LET k == Len(bytecode_fns[EntryFn].bytecodes) - 2
            before == LiteralValues(k)
        IN  stack_ = Append(PopBack(before),
                            MakeTuple(SeqReverse(Back(before).values)))

\* ExpandTuple and CreateTuple(2) have run on a tuple of two different
\* elements lying on another value.
C16_Witness ==
    /\ ExpandCreateDone
    /\ Len(stack_) = 2
    /\ Len(Back(stack_).values) = 2
    /\ Back(stack_).values[1] # Back(stack_).values[2]

-----------------------------------------------------------------------------
(* MatchArm. *)

\* Most sub-items of a tuple pattern, and most elements of a candidate.
MaxPatternLen == 3

\* Bytecode::MatchArmItem, by kind.
ItemInterpValue(v) == [kind |-> "InterpValue", value |-> v]
ItemLoad(i) == [kind |-> "Load", slot |-> i]
ItemStore(i) == [kind |-> "Store", slot |-> i]
ItemWildcard == [kind |-> "Wildcard"]
ItemTuple(elements) == [kind |-> "Tuple", elements |-> elements]

MatchArm(item) == [op |-> "MatchArm", item |-> item]

\* What MatchArmEqualsInterpValue returns, and the slots as it leaves them.
MatchResult(st, equal, slots) == [st |-> st, equal |-> equal, slots |-> slots]

RECURSIVE MatchArmEqualsInterpValue(_, _, _)
RECURSIVE MatchArmElements(_, _, _, _)

\* MatchArmTuple taking a difference of lengths for a mismatch.
MatchArmTupleLenient(slots, item_elements, value) ==
    IF ~(IsTuple(value) \/ IsArray(value))
    THEN MatchResult("InvalidArgument", FALSE, slots)
    ELSE IF Len(item_elements) # Len(value.values)
    THEN MatchResult("ok", FALSE, slots)
    ELSE MatchArmElements(slots, item_elements, value.values, 1)

\* MatchArmEqualsInterpValue, lines 723-742: the item is a tuple.
\* value.GetValues() fails on a value without elements.
MatchArmTuple(slots, item_elements, value) ==
    IF ~(IsTuple(value) \/ IsArray(value))
    THEN MatchResult("InvalidArgument", FALSE, slots)
    ELSE IF Len(item_elements) # Len(value.values)
    THEN MatchResult("Internal", FALSE, slots)
    ELSE MatchArmElements(slots, item_elements, value.values, 1)

\* The loop of lines 733-740, from the 1-based index i on.
MatchArmElements(slots, item_elements, value_elements, i) ==
    IF i > Len(item_elements) THEN MatchResult("ok", TRUE, slots)
    ELSE LET r == MatchArmEqualsInterpValue(slots, item_elements[i],
                                            value_elements[i])
         IN  IF r.st # "ok" \/ ~r.equal THEN r
             ELSE MatchArmElements(r.slots, item_elements, value_elements, i + 1)

\* MatchArmEqualsInterpValue on the slots of frames_.back().
MatchArmEqualsInterpValue(slots, item, value) ==
    IF item.kind = "InterpValue"
    THEN MatchResult("ok", ValueEq(item.value, value), slots)
    ELSE IF item.kind = "Load"
    THEN IF Len(slots) <= item.slot THEN MatchResult("Internal", FALSE, slots)
         ELSE MatchResult("ok", ValueEq(slots[item.slot + 1], value), slots)
    ELSE IF item.kind = "Store"
    THEN LET r == StoreSlot(slots, item.slot, value)
         IN  MatchResult(r.st, TRUE, r.slots)
    ELSE IF item.kind = "Wildcard"
    THEN MatchResult("ok", TRUE, slots)
    ELSE MatchArmTuple(slots, item.elements, value)

EvalMatchArm(bytecode) ==
    IF stack_ = <<>> THEN Err("Internal", stack_, frames_)
    ELSE LET matchee == Back(stack_)
             rest == PopBack(stack_)
             r == MatchArmEqualsInterpValue(CurFrame.slots, bytecode.item, matchee)
             frames == SetSlots(frames_, r.slots)
         IN  IF r.st # "ok" THEN Err(r.st, rest, frames)
             ELSE Ok(Append(rest, MakeBool(r.equal)), frames)

RunMatchArm == RunIteration("MatchArm", EvalMatchArm(CurBytecode), TRUE)

\* Interpret on programs of one MatchArm: a candidate, then a pattern; the
\* frame starts with no slot or with one.
InitMatch ==
    LET atoms == {ItemInterpValue(ValA), ItemLoad(0), ItemStore(0), ItemStore(1),
                  ItemStore(2), ItemWildcard}
        tuples == {ItemTuple(e) : e \in SeqsUpTo(atoms, MaxPatternLen)}
        nested == {ItemTuple(<<ItemStore(0), ItemTuple(<<ItemInterpValue(ValA)>>)>>),
                   ItemTuple(<<ItemInterpValue(MakeUBits(8, 1)), ItemStore(0)>>)}
        flat == {MakeTuple(e) : e \in SeqsUpTo({ValA, ValB}, MaxPatternLen)}
        candidates ==
            flat \cup {ValA, MakeSBits(2, 1), MakeToken,
                       MakeTuple(<<ValB, MakeTuple(<<ValA>>)>>),
                       MakeTuple(<<ValB, MakeTuple(<<ValA, ValA>>)>>),
                       MakeTuple(<<MakeUBits(8, 1), MakeUBits(8, 2)>>)}
    IN  \E item \in atoms \cup tuples \cup nested,
           candidate \in candidates,
           args \in {<<>>, <<ValA>>},
           prefix \in {<<>>, <<Literal(ValB)>>} :
            InitInterpreter(
                [cache |-> TRUE, instantiations |-> {}],
                [f \in {EntryFn} |->
                    [parametric |-> FALSE, owner |-> "m",
                     params |-> Len(args),
                     bytecodes |-> prefix \o <<Literal(candidate), MatchArm(item)>>]],
                args)

NextMatch ==
    \/ RunLiteral
    \/ RunMatchArm
    \/ PopFrame
    \/ InterpretReturn

SpecMatch == InitMatch /\ [][NextMatch]_vars

-----------------------------------------------------------------------------
(* Claims about MatchArm, checked under SpecMatch. *)

\* A MatchArm is about to execute on a candidate.
MatchArmReady == CanFetch /\ CurBytecode.op = "MatchArm" /\ stack_ # <<>>

\* Storing into slot i as the frame is specified: Token padding up through
\* i, then the write.
PaddedStore(slots, i, value) ==
    [k \in 1..(IF Len(slots) > i + 1 THEN Len(slots) ELSE i + 1) |->
        IF k = i + 1 THEN value
        ELSE IF k <= Len(slots) THEN slots[k]
        ELSE MakeToken]

\* Whether a sub-item that is no tuple matches a value, given the slots.
AtomMatches(slots, item, value) ==
    IF item.kind = "InterpValue" THEN ValueEq(item.value, value)
    ELSE IF item.kind = "Load" THEN ValueEq(slots[item.slot + 1], value)
    ELSE TRUE

RECURSIVE FirstMismatch(_, _, _, _)
\* Visiting sub-items i.. in index order: the index of the first one that
\* does not match and the slots as the Store items before it wrote them;
\* at 0 every sub-item matched; at -1 the visit left what the claims cover
\* (a nested tuple, or a Load of a slot the frame does not have).
FirstMismatch(slots, items, values, i) ==
    IF i > Len(items) THEN [at |-> 0, slots |-> slots]
    ELSE IF items[i].kind = "Tuple"
            \/ (items[i].kind = "Load" /\ Len(slots) <= items[i].slot)
    THEN [at |-> 0 - 1, slots |-> slots]
    ELSE IF ~AtomMatches(slots, items[i], values[i]) THEN [at |-> i, slots |-> slots]
    ELSE FirstMismatch(IF items[i].kind = "Store"
                       THEN PaddedStore(slots, items[i].slot, values[i])
                       ELSE slots,
                       items, values, i + 1)

\* The MatchArm about to execute has a tuple pattern and a tuple candidate
\* of the same length.
TupleMatchReady ==
    /\ MatchArmReady
    /\ CurBytecode.item.kind = "Tuple"
    /\ IsTuple(Back(stack_))
    /\ Len(CurBytecode.item.elements) = Len(Back(stack_).values)

\* The visit of the sub-items of the MatchArm about to execute.
Visit ==
    FirstMismatch(CurFrame.slots, CurBytecode.item.elements, Back(stack_).values, 1)

\* C18: on a tuple pattern with a first non-matching sub-item, MatchArm
\* pops the candidate and pushes false, and the slots are those written by
\* the Store sub-items before that sub-item, in index order, and by no other.
C18_MatchArmShortCircuit ==
    [][(TupleMatchReady /\ Visit.at > 0) =>
        /\ status' = "running"
        /\ stack_' = Append(PopBack(stack_), MakeBool(FALSE))
        /\ Back(frames_').slots = Visit.slots]_vars

\* The MatchArm about to execute has a pattern that matches the candidate
\* in full: a Store, a Wildcard, an InterpValue that is Eq to it, a Load of a
\* slot that is Eq to it, or a tuple all of whose sub-items match.
FullMatchReady ==
    /\ MatchArmReady
    /\ IF CurBytecode.item.kind = "Tuple"
       THEN TupleMatchReady /\ Visit.at = 0
       ELSE /\ ~(CurBytecode.item.kind = "Load"
                   /\ Len(CurFrame.slots) <= CurBytecode.item.slot)
            /\ AtomMatches(CurFrame.slots, CurBytecode.item, Back(stack_))

\* The slots a full match is to leave.
FullMatchSlots ==
    IF CurBytecode.item.kind = "Tuple" THEN Visit.slots
    ELSE IF CurBytecode.item.kind = "Store"
    THEN PaddedStore(CurFrame.slots, CurBytecode.item.slot, Back(stack_))
    ELSE CurFrame.slots

\* C19: on a pattern that matches in full, MatchArm pops the candidate,
\* pushes true, and leaves in the slot of every Store item the part of the
\* candidate it matched, whatever slot index the item names.
C19_MatchArmFullMatch ==
    [][FullMatchReady =>
        /\ status' = "running"
        /\ stack_' = Append(PopBack(stack_), MakeBool(TRUE))
        /\ Back(frames_').slots = FullMatchSlots]_vars

\* C20: on a tuple pattern of k items and a tuple candidate of another
\* length, MatchArm returns an Internal error: the candidate is popped,
\* nothing is pushed and no slot is written.
C20_MatchArmLengthMismatch ==
    [][(/\ MatchArmReady
        /\ CurBytecode.item.kind = "Tuple"
        /\ IsTuple(Back(stack_))
        /\ Len(CurBytecode.item.elements) # Len(Back(stack_).values)) =>
        /\ status' = "Internal"
        /\ stack_' = PopBack(stack_)
        /\ frames_' = frames_]_vars

\* A tuple pattern that starts with a Store has met a longer tuple
\* candidate: the MatchArm ended in an Internal error.
C20_Witness ==
    LET code == bytecode_fns[EntryFn].bytecodes
    IN  /\ status = "Internal"
        /\ Len(code) = 2
        /\ CurFrame.pc = 1
        /\ code[2].op = "MatchArm"
        /\ code[2].item.kind = "Tuple"
        /\ Len(code[2].item.elements) >= 1
        /\ code[2].item.elements[1].kind = "Store"
        /\ IsTuple(code[1].value)
        /\ Len(code[1].value.values) > Len(code[2].item.elements)
        /\ CurFrame.slots = <<>>
        /\ stack_ = <<>>

-----------------------------------------------------------------------------
(* Stack, arithmetic, logical, channel and trace opcodes. *)

\* EvalDup whose copy of a channel is a channel of its own.
EvalDupDetached(bytecode) ==
    IF stack_ = <<>> THEN Err("Internal", stack_, frames_)
    ELSE IF Back(stack_).tag = "Channel"
    THEN Ok(Append(stack_, MakeChannel(IF Back(stack_).handle = "c1"
                                       THEN "c2" ELSE "c1")),
            frames_)
    ELSE Ok(Append(stack_, Back(stack_)), frames_)

\* EvalDup.
EvalDup(bytecode) ==
    IF stack_ = <<>> THEN Err("Internal", stack_, frames_)           \* RET_CHECK
    ELSE Ok(Append(stack_, Back(stack_)), frames_)

\* EvalSwap.
EvalSwap(bytecode) ==
    IF Len(stack_) < 2 THEN Err("Internal", stack_, frames_)         \* RET_CHECK
    ELSE LET tos0 == Back(stack_)
             tos1 == Back(PopBack(stack_))
         IN  Ok(PopBack(PopBack(stack_)) \o <<tos0, tos1>>, frames_)

\* EvalUnop with the operation of EvalInvert or EvalNegate: an operand that
\* has no bits is an error of the operation.
EvalUnop(bytecode) ==
    IF Len(stack_) < 1 THEN Err("Internal", stack_, frames_)         \* RET_CHECK
    ELSE LET arg == Back(stack_)
             rest == PopBack(stack_)
         IN  IF ~IsBits(arg) THEN Err("InvalidArgument", rest, frames_)
             ELSE IF bytecode.op = "Invert"
             THEN Ok(Append(rest, [arg EXCEPT !.bits =
                                       [i \in 1..Len(arg.bits) |-> 1 - arg.bits[i]]]),
                     frames_)
             ELSE Ok(Append(rest, [arg EXCEPT !.bits =
                                       BitsOf(Len(arg.bits), 0 - BitsToUint(arg.bits))]),
                     frames_)

\* EvalBinop taking the top of the stack for lhs.
EvalBinopTopIsLhs(bytecode) ==
    IF Len(stack_) < 2 THEN Err("Internal", stack_, frames_)
    ELSE LET r == BinopResult(bytecode.op, Back(stack_), Back(PopBack(stack_)))
             rest == PopBack(PopBack(stack_))
         IN  IF r.st # "ok" THEN Err(r.st, rest, frames_)
             ELSE Ok(Append(rest, r.value), frames_)

\* EvalBinop: rhs is popped first, then lhs, and op(lhs, rhs) is pushed.
EvalBinop(bytecode) ==
    IF Len(stack_) < 2 THEN Err("Internal", stack_, frames_)         \* RET_CHECK
    ELSE LET rhs == Back(stack_)
             lhs == Back(PopBack(stack_))
             rest == PopBack(PopBack(stack_))
             r == BinopResult(bytecode.op, lhs, rhs)
         IN  IF r.st # "ok" THEN Err(r.st, rest, frames_)
             ELSE Ok(Append(rest, r.value), frames_)

\* EvalIndex: index is popped first, then basis.  InterpValue::Index fails on
\* an index that has no bits or is not below the number of elements.
EvalIndex(bytecode) ==
    IF stack_ = <<>> THEN Err("Internal", stack_, frames_)
    ELSE IF Len(stack_) < 2 THEN Err("Internal", PopBack(stack_), frames_)
    ELSE LET index == Back(stack_)
             basis == Back(PopBack(stack_))
             rest == PopBack(PopBack(stack_))
         IN  IF ~(IsArray(basis) \/ IsTuple(basis))
             THEN Err("InvalidArgument", rest, frames_)
             ELSE IF ~IsBits(index) \/ BitsToUint(index.bits) >= Len(basis.values)
             THEN Err("InvalidArgument", rest, frames_)
             ELSE Ok(Append(rest, basis.values[BitsToUint(index.bits) + 1]), frames_)

\* EvalCreateArray: num_elements values are popped and reversed.
EvalCreateArray(bytecode) ==
    LET n == bytecode.num_elements
    IN  IF Len(stack_) < n THEN Err("Internal", stack_, frames_)     \* RET_CHECK
        ELSE Ok(Append(SubSeq(stack_, 1, Len(stack_) - n),
                       MakeArray(SubSeq(stack_, Len(stack_) - n + 1, Len(stack_)))),
                frames_)

\* EvalLogicalAnd.  An operand without bits fails lhs.HasBits(), and the
\* error message is then built with lhs.GetBitsOrDie(), which ends the
\* process instead of returning the status.
EvalLogicalAnd(bytecode) ==
    IF stack_ = <<>> THEN Err("Internal", stack_, frames_)
    ELSE IF Len(stack_) < 2 THEN Err("Internal", PopBack(stack_), frames_)
    ELSE LET rhs == Back(stack_)
             lhs == Back(PopBack(stack_))
             rest == PopBack(PopBack(stack_))
         IN  IF ~(IsBits(lhs) \/ IsEnum(lhs)) THEN Err("crash", rest, frames_)
             ELSE IF Len(lhs.bits) # 1 THEN Err("InvalidArgument", rest, frames_)
             ELSE IF ~(IsBits(rhs) \/ IsEnum(rhs)) THEN Err("crash", rest, frames_)
             ELSE IF Len(rhs.bits) # 1 THEN Err("InvalidArgument", rest, frames_)
             ELSE Ok(Append(rest, [lhs EXCEPT !.bits = <<lhs.bits[1] * rhs.bits[1]>>]),
                     frames_)

\* EvalLogicalOr: as EvalLogicalAnd, with BitwiseOr.
EvalLogicalOr(bytecode) ==
    IF stack_ = <<>> THEN Err("Internal", stack_, frames_)
    ELSE IF Len(stack_) < 2 THEN Err("Internal", PopBack(stack_), frames_)
    ELSE LET rhs == Back(stack_)
             lhs == Back(PopBack(stack_))
             rest == PopBack(PopBack(stack_))
         IN  IF ~(IsBits(lhs) \/ IsEnum(lhs)) THEN Err("crash", rest, frames_)
             ELSE IF Len(lhs.bits) # 1 THEN Err("InvalidArgument", rest, frames_)
             ELSE IF ~(IsBits(rhs) \/ IsEnum(rhs)) THEN Err("crash", rest, frames_)
             ELSE IF Len(rhs.bits) # 1 THEN Err("InvalidArgument", rest, frames_)
             ELSE Ok(Append(rest,
                            [lhs EXCEPT !.bits =
                                <<IF lhs.bits[1] + rhs.bits[1] > 0 THEN 1 ELSE 0>>]),
                     frames_)

\* EvalSend that puts the payload at the front of the FIFO.
EvalSendToFront(bytecode) ==
    IF Len(stack_) < 2 THEN Err("Internal", <<>>, frames_)
    ELSE LET payload == Back(stack_)
             channel_value == Back(PopBack(stack_))
             rest == PopBack(PopBack(stack_))
         IN  IF channel_value.tag # "Channel"
             THEN Err("InvalidArgument", rest, frames_)
             ELSE Ok(rest, frames_) @@
                  [channels |-> [channels EXCEPT ![channel_value.handle] =
                                                     <<payload>> \o @]]

\* EvalSend: payload is popped first, then the channel; the payload goes to
\* the back of the channel's FIFO.  Nothing is pushed.
EvalSend(bytecode) ==
    IF stack_ = <<>> THEN Err("Internal", stack_, frames_)
    ELSE IF Len(stack_) < 2 THEN Err("Internal", PopBack(stack_), frames_)
    ELSE LET payload == Back(stack_)
             channel_value == Back(PopBack(stack_))
             rest == PopBack(PopBack(stack_))
         IN  IF channel_value.tag # "Channel"                  \* GetChannel()
             THEN Err("InvalidArgument", rest, frames_)
             ELSE Ok(rest, frames_) @@
                  [channels |-> [channels EXCEPT ![channel_value.handle] =
                                                     Append(@, payload)]]

\* EvalRecv that answers an empty FIFO with a Token instead of an error.
EvalRecvEmptyOk(bytecode) ==
    IF stack_ = <<>> THEN Err("Internal", stack_, frames_)
    ELSE LET channel_value == Back(stack_)
             rest == PopBack(stack_)
         IN  IF channel_value.tag # "Channel"
             THEN Err("InvalidArgument", rest, frames_)
             ELSE IF channels[channel_value.handle] = <<>>
             THEN Ok(Append(rest, MakeToken), frames_)
             ELSE Ok(Append(rest, Head(channels[channel_value.handle])), frames_) @@
                  [channels |-> [channels EXCEPT ![channel_value.handle] = Tail(@)]]

\* EvalRecv: the channel is popped; the front of its FIFO is pushed and
\* removed, or the FIFO is empty and the status is Unavailable.
EvalRecv(bytecode) ==
    IF stack_ = <<>> THEN Err("Internal", stack_, frames_)
    ELSE LET channel_value == Back(stack_)
             rest == PopBack(stack_)
         IN  IF channel_value.tag # "Channel"                  \* GetChannel()
             THEN Err("InvalidArgument", rest, frames_)
             ELSE IF channels[channel_value.handle] = <<>>
             THEN Err("Unavailable", rest, frames_)
             ELSE Ok(Append(rest, Head(channels[channel_value.handle])), frames_) @@
                  [channels |-> [channels EXCEPT ![channel_value.handle] = Tail(@)]]

RECURSIVE TraceDataToString(_, _, _, _)
\* TraceDataToString: the loop over trace_data from its last element (i is
\* the 0-based index) with the deque pieces, popping one value per format
\* item.  The message is the pieces in order (StrJoin with no separator); a
\* piece is a literal string or a value rendered with a format preference.
\* Values that have no IR form (functions, channels) fail ConvertToIr.
TraceDataToString(trace_data, i, pieces, stack) ==
    IF i < 0 THEN [st |-> "ok", message |-> pieces, stack |-> stack]
    ELSE LET trace_element == trace_data[i + 1]
         IN  IF "lit" \in DOMAIN trace_element
             THEN TraceDataToString(
                      trace_data, i - 1,
                      IF i # 0
                      THEN <<trace_element>> \o pieces \o <<[lit |-> " "]>>
                      ELSE <<trace_element>> \o pieces,
                      stack)
             ELSE IF stack = <<>>
             THEN [st |-> "Internal", message |-> pieces, stack |-> stack]
             ELSE IF Back(stack).tag \in {"Function", "Channel"}
             THEN [st |-> "InvalidArgument", message |-> pieces,
                   stack |-> PopBack(stack)]
             ELSE TraceDataToString(
                      trace_data, i - 1,
                      <<[val |-> Back(stack), fmt |-> trace_element.fmt]>> \o pieces,
                      PopBack(stack))

\* EvalTrace: the message goes to the log and Token is pushed.
EvalTrace(bytecode) ==
    LET r == TraceDataToString(bytecode.trace_data, Len(bytecode.trace_data) - 1,
                               <<>>, stack_)
    IN  IF r.st # "ok" THEN Err(r.st, r.stack, frames_)
        ELSE Ok(Append(r.stack, MakeToken), frames_) @@ [message |-> r.message]

\* EvalFail: the message is that of the Failure status.
EvalFail(bytecode) ==
    LET r == TraceDataToString(bytecode.trace_data, Len(bytecode.trace_data) - 1,
                               <<>>, stack_)
    IN  IF r.st # "ok" THEN Err(r.st, r.stack, frames_)
        ELSE Err("Failure", r.stack, frames_) @@ [message |-> r.message]

-----------------------------------------------------------------------------
(* Interpret on programs of one instruction and its operands. *)

MaxOperands == 2
MaxTraceLen == 3

\* The program pushes up to MaxOperands literals of every kind of value and
\* then executes one instruction.  A Slice is given fewer operands than it
\* pops; its full-stack behaviour is that of SpecSlice.
InitOps ==
    LET values == {MakeBool(TRUE), MakeBool(FALSE), ValA, MakeToken,
                   MakeTuple(<<ValA>>), MakeArray(<<ValA>>), MakeChannel("c1"),
                   [tag |-> "Function", builtin |-> "cover"]}
        elements == {[lit |-> "a"], [lit |-> "b"], [fmt |-> "default"]}
        trace_datas == SeqsUpTo(elements, MaxTraceLen) \ {<<>>}
        ops == {Nullary(op) : op \in {"Pop", "Dup", "Swap", "ExpandTuple",
                                      "Invert", "Negate", "Add", "Sub", "Lt",
                                      "Index", "Slice", "Send", "Recv",
                                      "LogicalAnd", "LogicalOr"}}
                 \cup {Store(0), JumpRelIf(1), MatchArm(ItemWildcard),
                       Call("inv", <<>>)}
                 \cup {[op |-> o, trace_data |-> t] :
                           o \in {"Trace", "Fail"}, t \in trace_datas}
    IN  \E operands \in SeqsUpTo(values, MaxOperands), op \in ops :
            /\ op.op = "Slice" => Len(operands) < 3
            /\ InitInterpreter(
                   [cache |-> TRUE, instantiations |-> {}],
                   [f \in {EntryFn} |->
                       [parametric |-> FALSE, owner |-> "m", params |-> 0,
                        bytecodes |->
                            [i \in 1..Len(operands) |-> Literal(operands[i])]
                                \o <<op>>]],
                   <<>>)

NextOps ==
    \/ RunLiteral
    \/ RunPop
    \/ RunIteration("Dup", EvalDup(CurBytecode), TRUE)
    \/ RunIteration("Swap", EvalSwap(CurBytecode), TRUE)
    \/ RunStore
    \/ RunExpandTuple
    \/ RunIteration("Invert", EvalUnop(CurBytecode), TRUE)
    \/ RunIteration("Negate", EvalUnop(CurBytecode), TRUE)
    \/ RunIteration("Add", EvalBinop(CurBytecode), TRUE)
    \/ RunIteration("Sub", EvalBinop(CurBytecode), TRUE)
    \/ RunIteration("Lt", EvalBinop(CurBytecode), TRUE)
    \/ RunIteration("Index", EvalIndex(CurBytecode), TRUE)
    \/ RunSlice
    \/ RunJumpRelIf
    \/ RunMatchArm
    \/ RunIteration("Send", EvalSend(CurBytecode), TRUE)
    \/ RunIteration("Recv", EvalRecv(CurBytecode), TRUE)
    \/ RunCall
    \/ RunIteration("LogicalAnd", EvalLogicalAnd(CurBytecode), TRUE)
    \/ RunIteration("LogicalOr", EvalLogicalOr(CurBytecode), TRUE)
    \/ RunIteration("Trace", EvalTrace(CurBytecode), TRUE)
    \/ RunIteration("Fail", EvalFail(CurBytecode), TRUE)
    \/ PopFrame
    \/ InterpretReturn

SpecOps == InitOps /\ [][NextOps]_vars

-----------------------------------------------------------------------------
(* Claims about single instructions, checked under SpecOps. *)

\* The number of values an instruction pops before it can do anything.
Pops(bytecode) ==
    CASE bytecode.op \in {"Pop", "Dup", "Store", "ExpandTuple", "Invert",
                          "Negate", "JumpRelIf", "MatchArm", "Recv", "Call"} -> 1
      [] bytecode.op \in {"Swap", "Add", "Sub", "Lt", "Index", "Send"} -> 2
      [] bytecode.op = "Slice" -> 3
      [] OTHER -> 0

\* C28: an instruction that finds fewer values on the stack than it pops
\* returns an Internal error, whichever opcode it is.
C28_UnderflowIsInternal ==
    [][(CanFetch /\ Len(stack_) < Pops(CurBytecode)) => status' = "Internal"]_vars

\* C29: LogicalAnd / LogicalOr on two values push the AND / OR of the two
\* bits when both are 1-bit bits values, and return InvalidArgument when
\* either is anything else, values that have no bits included.
C29_LogicalOperands ==
    [][(CanFetch /\ CurBytecode.op \in {"LogicalAnd", "LogicalOr"}
                 /\ Len(stack_) >= 2) =>
          LET rhs == Back(stack_)
              lhs == Back(PopBack(stack_))
              rest == PopBack(PopBack(stack_))
              bool(v) == IsBits(v) /\ Len(v.bits) = 1
          IN  IF bool(lhs) /\ bool(rhs)
              THEN /\ status' = "running"
                   /\ PopBack(stack_') = rest
                   /\ IsBits(Back(stack_'))
                   /\ Back(stack_').bits =
                        <<IF CurBytecode.op = "LogicalAnd"
                          THEN IF lhs.bits[1] = 1 /\ rhs.bits[1] = 1 THEN 1 ELSE 0
                          ELSE IF lhs.bits[1] = 1 \/ rhs.bits[1] = 1 THEN 1 ELSE 0>>
              ELSE status' = "InvalidArgument"]_vars

RECURSIVE ExpectedPieces(_, _, _)
\* The message of trace_data from element i on, left to right: a literal is
\* followed by one space when another element follows it, and the format
\* items take vals in order.
ExpectedPieces(trace_data, i, vals) ==
    IF i > Len(trace_data) THEN <<>>
    ELSE IF "lit" \in DOMAIN trace_data[i]
    THEN <<trace_data[i]>>
         \o (IF i < Len(trace_data) THEN <<[lit |-> " "]>> ELSE <<>>)
         \o ExpectedPieces(trace_data, i + 1, vals)
    ELSE <<[val |-> Head(vals), fmt |-> trace_data[i].fmt]>>
         \o ExpectedPieces(trace_data, i + 1, Tail(vals))

\* The number of format items of trace_data.
FormatItems(trace_data) ==
    Cardinality({i \in 1..Len(trace_data) : "fmt" \in DOMAIN trace_data[i]})

\* C27: Trace and Fail pop one value per format item, the last item taking
\* the top of the stack, and their message is the pieces in left-to-right
\* order with one space between a literal and the element after it and no
\* space anywhere else.
C27_TraceMessage ==
    [][(/\ CanFetch
        /\ CurBytecode.op \in {"Trace", "Fail"}
        /\ Len(stack_) >= FormatItems(CurBytecode.trace_data)
        /\ \A k \in 1..FormatItems(CurBytecode.trace_data) :
               stack_[Len(stack_) - k + 1].tag \notin {"Function", "Channel"}) =>
          LET k == FormatItems(CurBytecode.trace_data)
              rest == SubSeq(stack_, 1, Len(stack_) - k)
              vals == SubSeq(stack_, Len(stack_) - k + 1, Len(stack_))
          IN  /\ log' = <<ExpectedPieces(CurBytecode.trace_data, 1, vals)>>
              /\ IF CurBytecode.op = "Trace"
                 THEN status' = "running" /\ stack_' = Append(rest, MakeToken)
                 ELSE status' = "Failure" /\ stack_' = rest]_vars

-----------------------------------------------------------------------------
(* Interpret on programs of channel operations and of calls: builtins, map,
   parametric and imported functions. *)

MaxBlocks == 4

\* The entry function has the channels c1 and c2 in slots 0 and 1.  Its
\* program is one of:
\*  - a sequence of blocks, each a Send on c1 or c2 or a Recv on c1, the
\*    channel reached through the slot, a Dup, a second slot or a call
\*    argument;
\*  - a call of a builtin on up to one operand;
\*  - map(array, inc), where inc(x) is x + u8:1;
\*  - a call of callee, which calls leaf; callee may be parametric or of
\*    another module, leaf may be of another module, and the type
\*    information holds some instantiations or none.
InitInvoke ==
    LET fns(entry, parametric, owner, leaf_owner) ==
            [f \in {EntryFn, CalleeFn, "send", "recv", "inc", "leaf", "bind"} |->
                CASE f = EntryFn ->
                       [parametric |-> FALSE, owner |-> "m", params |-> 2,
                        bytecodes |-> entry]
                  [] f = CalleeFn ->
                       [parametric |-> parametric, owner |-> owner, params |-> 1,
                        bytecodes |-> <<Load(0), Literal(MakeFunction("leaf")),
                                        Call("inv2", <<>>)>>]
                  [] f = "send" ->
                       [parametric |-> FALSE, owner |-> "m", params |-> 2,
                        bytecodes |-> <<Load(0), Load(1), Nullary("Send")>>]
                  [] f = "recv" ->
                       [parametric |-> FALSE, owner |-> "m", params |-> 1,
                        bytecodes |-> <<Load(0), Nullary("Recv")>>]
                  [] f = "inc" ->
                       [parametric |-> FALSE, owner |-> "m", params |-> 1,
                        bytecodes |-> <<Load(0), Literal(MakeUBits(8, 1)),
                                        Nullary("Add")>>]
                  [] f = "leaf" ->
                       [parametric |-> FALSE, owner |-> leaf_owner, params |-> 1,
                        bytecodes |-> <<Load(0)>>]
                  [] f = "bind" ->
                       [parametric |-> FALSE, owner |-> "m", params |-> 1,
                        bytecodes |->
                            <<Load(0),
                              MatchArm(ItemTuple(<<ItemStore(1),
                                                   ItemTuple(<<ItemStore(0)>>)>>)),
                              Store(2), Load(1)>>]]
        args == <<MakeChannel("c1"), MakeChannel("c2")>>
        no_imports == [cache |-> TRUE, instantiations |-> {}]
        call == Call("inv", <<>>)
        blocks ==
            {<<Load(0), Literal(ValA), Nullary("Send")>>,
             <<Load(0), Literal(ValB), Nullary("Send")>>,
             <<Load(0), Nullary("Dup"), Literal(ValB), Nullary("Send"),
               Nullary("Pop")>>,
             <<Load(0), Store(2), Load(2), Literal(ValA), Nullary("Send")>>,
             <<Load(0), Literal(ValB), Literal(MakeFunction("send")), call>>,
             <<Load(1), Literal(ValB), Nullary("Send")>>,
             <<Load(0), Nullary("Recv")>>,
             <<Load(0), Literal(MakeFunction("recv")), call>>}
        RECURSIVE block_programs(_)
        block_programs(n) ==
            IF n = 0 THEN {<<>>}
            ELSE block_programs(n - 1)
                   \cup {p \o b : p \in block_programs(n - 1), b \in blocks}
        builtin(name) == [tag |-> "Function", builtin |-> name]
        builtin_programs ==
            {operands \o <<Literal(builtin(name)), call>> \o rest :
                operands \in {<<>>, <<Literal(ValA)>>, <<Literal(MakeUBits(2, 3))>>,
                              <<Literal(MakeToken)>>},
                name \in {"and_reduce", "cover", "fail", "trace", "smulp"},
                rest \in {<<>>, <<Nullary("Pop")>>}}
        arrays == {MakeArray(a) :
                      a \in SeqsUpTo({MakeUBits(8, n) : n \in {1, 2, 3, 255}},
                                     MaxArraySize)}
        map_programs ==
            {<<Literal(inputs), Literal(fn), Literal(builtin("map")), call>> :
                inputs \in arrays \cup {ValA},
                fn \in {MakeFunction("inc"), ValA}}
        bind_programs ==
            {<<Literal(v), Literal(MakeFunction("bind")), call>> :
                v \in {MakeTuple(<<ValA, MakeTuple(<<ValB>>)>>),
                       MakeTuple(<<ValA, ValB>>), ValA}}
    IN  \/ \E entry \in block_programs(MaxBlocks) \cup builtin_programs
                            \cup map_programs \cup bind_programs :
               InitInterpreter(no_imports, fns(entry, FALSE, "m", "m"), args)
        \/ \E parametric \in BOOLEAN, owner \in {"m", "other"},
              leaf_owner \in {"m", "other"},
              bindings \in {<<>>, <<"N=1">>, <<"N=2">>},
              cache \in BOOLEAN,
              instantiations \in SUBSET {<<"m", "inv", "N=1">>,
                                         <<"other", "inv", "N=1">>} :
               InitInterpreter(
                   [cache |-> cache, instantiations |-> instantiations],
                   fns(<<Literal(ValA), Literal(MakeFunction(CalleeFn)),
                         Call("inv", bindings)>>,
                       parametric, owner, leaf_owner),
                   args)

NextInvoke ==
    \/ RunLiteral
    \/ RunLoad
    \/ RunStore
    \/ RunPop
    \/ RunIteration("Dup", EvalDup(CurBytecode), TRUE)
    \/ RunIteration("Send", EvalSend(CurBytecode), TRUE)
    \/ RunIteration("Recv", EvalRecv(CurBytecode), TRUE)
    \/ RunCall
    \/ RunIteration("Index", EvalIndex(CurBytecode), TRUE)
    \/ RunIteration("Add", EvalBinop(CurBytecode), TRUE)
    \/ RunIteration("Lt", EvalBinop(CurBytecode), TRUE)
    \/ RunJumpDest
    \/ RunJumpRelIf
    \/ RunIteration("CreateArray", EvalCreateArray(CurBytecode), TRUE)
    \/ RunMatchArm
    \/ PopFrame
    \/ InterpretReturn

SpecInvoke == InitInvoke /\ [][NextInvoke]_vars

-----------------------------------------------------------------------------
(* Claims about channels and calls, checked under SpecInvoke. *)

EntryProgram == bytecode_fns[EntryFn].bytecodes

\* The entry function is between two blocks of a program of channel blocks.
AtBlockBoundary ==
    /\ status = "running"
    /\ Len(frames_) = 1
    /\ EntryProgram = <<>> \/ EntryProgram[1].op = "Load"
    /\ \/ CurFrame.pc = Len(EntryProgram)
       \/ /\ CurFrame.pc < Len(EntryProgram)
          /\ EntryProgram[CurFrame.pc + 1].op = "Load"
          /\ EntryProgram[CurFrame.pc + 1].slot \in {0, 1}

\* The channel a block works on: the one whose slot its first Load names.
ChannelOfSlot(load) == IF load.slot = 1 THEN "c2" ELSE "c1"

RECURSIVE Sent(_, _, _)
\* The payloads the first n instructions of a block program have sent to
\* channel h, in order: those of its Send instructions and of its calls of
\* send.
Sent(prog, n, h) ==
    IF n = 0 THEN <<>>
    ELSE LET prev == Sent(prog, n - 1, h)
         IN  IF prog[n].op = "Send"
             THEN IF h = (IF prog[n - 2].op = "Load" /\ prog[n - 2].slot = 1
                          THEN "c2" ELSE "c1")
                  THEN Append(prev, prog[n - 1].value) ELSE prev
             ELSE IF prog[n].op = "Call" /\ prog[n - 1].value.fn = "send"
             THEN IF h = ChannelOfSlot(prog[n - 3])
                  THEN Append(prev, prog[n - 2].value) ELSE prev
             ELSE prev

RECURSIVE RecvChannels(_, _)
\* The channels of the Recvs among the first n instructions, in order.
RecvChannels(prog, n) ==
    IF n = 0 THEN <<>>
    ELSE LET prev == RecvChannels(prog, n - 1)
         IN  IF prog[n].op = "Recv" THEN Append(prev, ChannelOfSlot(prog[n - 1]))
             ELSE IF prog[n].op = "Call" /\ prog[n - 1].value.fn = "recv"
             THEN Append(prev, ChannelOfSlot(prog[n - 2]))
             ELSE prev

RECURSIVE ReceivedFrom(_, _, _)
\* The received values (the value stack at a block boundary) that came from
\* channel h.
ReceivedFrom(stack, chans, h) ==
    IF stack = <<>> \/ chans = <<>> THEN <<>>
    ELSE (IF Head(chans) = h THEN <<Head(stack)>> ELSE <<>>)
             \o ReceivedFrom(Tail(stack), Tail(chans), h)

\* C21: on each channel the k-th successful Recv obtains the payload of the
\* k-th Send: the values received from a channel are a prefix of the values
\* sent to it.
C21_FifoOrder ==
    AtBlockBoundary =>
        LET n == CurFrame.pc
            chans == RecvChannels(EntryProgram, n)
        IN  /\ Len(stack_) = Len(chans)
            /\ \A h \in {"c1", "c2"} :
                  LET received == ReceivedFrom(stack_, chans, h)
                      sent == Sent(EntryProgram, n, h)
                  IN  /\ Len(received) <= Len(sent)
                      /\ received = SubSeq(sent, 1, Len(received))

\* Two Sends, then two Recvs, all through the slot: both payloads are back
\* in the order they were sent.
C21_Witness ==
    /\ AtBlockBoundary
    /\ CurFrame.pc = Len(EntryProgram)
    /\ \A i \in 1..Len(EntryProgram) :
           EntryProgram[i].op \in {"Load", "Literal", "Send", "Recv"}
    /\ Sent(EntryProgram, Len(EntryProgram), "c1") = <<ValA, ValB>>
    /\ stack_ = <<ValA, ValB>>

\* C22: a Recv on an empty channel returns Unavailable, pushes nothing and
\* leaves the channel as it is.
C22_RecvEmpty ==
    [][(/\ CanFetch
        /\ CurBytecode.op = "Recv"
        /\ stack_ # <<>>
        /\ Back(stack_).tag = "Channel"
        /\ channels[Back(stack_).handle] = <<>>) =>
          /\ status' = "Unavailable"
          /\ stack_' = PopBack(stack_)
          /\ channels' = channels]_vars

\* A Recv found the channel empty after an earlier Send and Recv on it.
C22_Witness ==
    /\ status = "Unavailable"
    /\ Len(frames_) = 1
    /\ EntryProgram[CurFrame.pc + 1].op = "Recv"
    /\ Len(Sent(EntryProgram, CurFrame.pc, "c1")) = 1
    /\ stack_ = <<ValA>>

\* C23: the copies of a channel value that Dup, Store/Load and a Call
\* argument make all are the one FIFO: it holds exactly the payloads sent
\* through any copy and not yet received through any copy, in order.
C23_CopiesAlias ==
    AtBlockBoundary =>
        LET n == CurFrame.pc
            chans == RecvChannels(EntryProgram, n)
        IN  \A h \in {"c1", "c2"} :
                LET sent == Sent(EntryProgram, n, h)
                    taken == Len(SelectSeq(chans, LAMBDA c : c = h))
                IN  /\ taken <= Len(sent)
                    /\ channels[h] = SubSeq(sent, taken + 1, Len(sent))

\* Payloads sent through a second slot and through a Dup have been received
\* through a call argument and through the slot.
C23_Witness ==
    /\ AtBlockBoundary
    /\ CurFrame.pc = Len(EntryProgram)
    /\ \E i, j, k \in 1..Len(EntryProgram) :
           /\ EntryProgram[i].op = "Store"
           /\ EntryProgram[j].op = "Dup"
           /\ EntryProgram[k].op = "Call"
    /\ stack_ = <<ValA, ValB>>
    /\ channels["c1"] = <<>>

\* A Call is about to execute with a builtin other than map as its callee.
BuiltinCallReady ==
    /\ CanFetch
    /\ CurBytecode.op = "Call"
    /\ stack_ # <<>>
    /\ Back(stack_).tag = "Function"
    /\ "builtin" \in DOMAIN Back(stack_)
    /\ Back(stack_).builtin # "map"

\* C25: a Call of a builtin other than map runs in place: no frame is pushed
\* or popped, the caller's pc advances by exactly one and its slots (and
\* everything else of every frame) stay as they are.
C25_BuiltinInPlace ==
    [][BuiltinCallReady =>
          /\ Len(frames_') = Len(frames_)
          /\ Back(frames_').pc = CurFrame.pc + 1
          /\ Back(frames_').slots = CurFrame.slots
          /\ frames_' = IncrementPc(frames_)]_vars

\* and_reduce(u2:3) has returned true to the instruction after the Call.
C25_Witness ==
    /\ status = "running"
    /\ Len(frames_) = 1
    /\ CurFrame.pc = 3
    /\ EntryProgram[3].op = "Call"
    /\ EntryProgram[2].value = [tag |-> "Function", builtin |-> "and_reduce"]
    /\ CurFrame.slots = <<MakeChannel("c1"), MakeChannel("c2")>>
    /\ stack_ = <<MakeBool(TRUE)>>

\* A Call is about to execute with a user-defined function as its callee,
\* its arguments on the stack and the bytecode cache present.
UserCallReady ==
    /\ CanFetch
    /\ CurBytecode.op = "Call"
    /\ stack_ # <<>>
    /\ Back(stack_).tag = "Function"
    /\ "fn" \in DOMAIN Back(stack_)
    /\ Len(stack_) > bytecode_fns[Back(stack_).fn].params
    /\ import_data.cache

\* C26: the callee's frame gets, for a parametric callee, the type
\* information of the instantiation recorded for the invocation and the
\* caller's bindings, and the Call returns an Internal error without pushing
\* a frame or moving the caller's pc when none is recorded; for a
\* non-parametric callee of another module, that module's root type
\* information; otherwise the caller's type information.
C26_CalleeTypeInfo ==
    [][UserCallReady =>
          LET f == bytecode_fns[Back(stack_).fn]
              caller == CurFrame.type_info
              invocation == CurBytecode.invocation
              bindings == CurBytecode.bindings
              pushed == /\ status' = "running"
                        /\ Len(frames_') = Len(frames_) + 1
          IN  IF f.parametric
              THEN IF /\ bindings # <<>>
                      /\ <<caller.module, invocation, bindings[1]>>
                            \in import_data.instantiations
                   THEN /\ pushed
                        /\ Back(frames_').type_info.inst = <<invocation, bindings[1]>>
                   ELSE /\ status' = "Internal"
                        /\ frames_' = frames_
              ELSE IF f.owner # caller.module
              THEN pushed /\ Back(frames_').type_info = GetRootTypeInfo(f.owner)
              ELSE pushed /\ Back(frames_').type_info = caller]_vars

\* leaf runs with the type information of the instantiation of its caller,
\* a parametric function of its own module.
C26_Witness ==
    /\ status = "running"
    /\ Len(frames_) = 3
    /\ frames_[2].type_info.inst = <<"inv", "N=1">>
    /\ frames_[3].type_info = frames_[2].type_info
    /\ frames_[1].type_info = GetRootTypeInfo("m")

\* The entry program is map(inputs, inc) on an array.
MapProgram ==
    /\ Len(EntryProgram) = 4
    /\ EntryProgram[3] = Literal([tag |-> "Function", builtin |-> "map"])
    /\ EntryProgram[2] = Literal(MakeFunction("inc"))
    /\ EntryProgram[1].value.tag = "Array"

\* C24: map over an array of length n runs in exactly one frame of its own,
\* whose loop ends after n iterations with exactly n results on the value
\* stack, and returns the array of inc applied to each element in order.
C24_MapResult ==
    MapProgram =>
        LET inputs == EntryProgram[1].value.values
            n == Len(inputs)
            owned == {i \in 1..Len(frames_) : frames_[i].bf_holder # <<>>}
        IN  /\ status \in {"running", "ok"}
            /\ Cardinality(owned) <= 1
            /\ \A i \in owned :
                  /\ i = 2
                  /\ frames_[i].slots[1] = MakeArray(inputs)
                  /\ (i = Len(frames_)
                        /\ PcBelowSize(frames_[i].pc, Len(BytecodesOf(frames_[i])))
                        /\ BytecodesOf(frames_[i])[frames_[i].pc + 1].op = "CreateArray")
                       => Len(stack_) = n
            /\ status = "ok" =>
                  result = <<MakeArray([i \in 1..n |->
                                           ValueAdd(inputs[i], MakeUBits(8, 1))])>>

\* C39: the loop synthesized for map over an array of length n executes its
\* Index and its Call exactly n times, for n = 0 too: the k-th Index and the
\* k-th Call are executed with the loop index at k - 1 < n, and CreateArray
\* is reached with the loop index at n.
C39_MapIterations ==
    (MapProgram /\ CanFetch /\ CurFrame.bf_holder # <<>>) =>
        LET n == Len(EntryProgram[1].value.values)
            index == CurFrame.slots[2]
        IN  /\ CurBytecode.op \in {"Index", "Call"} => BitsToUint(index.bits) < n
            /\ CurBytecode.op = "CreateArray" => BitsToUint(index.bits) = n

-----------------------------------------------------------------------------
(* Interpret on programs of one binary operation or one binary builtin on  *)
(* two literals.                                                           *)

\* Widest bits value among the operands, the operands of the scenarios of
\* Shr and Concat apart.
MaxArithWidth == 2

\* The operands are every bits value up to MaxArithWidth, tuples, arrays of
\* one length and a token, and for the binary operations those of the
\* scenarios too; a builtin call is followed by nothing or by one more
\* instruction.  The builtins of one operand and of two also get an enum, an
\* empty array and an array of two widths; those of three operands take the
\* second and third from a few values of each kind; and each builtin is
\* called once on an empty stack.
InitArith ==
    LET values == BitsValues(MaxArithWidth)
                    \cup {MakeTuple(<<ValA>>), MakeTuple(<<ValB>>),
                          MakeArray(<<ValA, ValB>>), MakeArray(<<ValA, ValA>>),
                          MakeToken}
        scenarios == {MakeUBits(4, 10), MakeUBits(4, 3), MakeSBits(8, 0 - 1),
                      MakeUBits(8, 7)}
        binops == {<<Literal(a), Literal(b), Nullary(op)>> :
                      a \in values \cup scenarios, b \in values \cup scenarios,
                      op \in {"Sub", "Concat", "Shr"}}
        builtin(name) == Literal([tag |-> "Function", builtin |-> name])
        builtins ==
            {<<Literal(a), Literal(b), builtin(name), Call("inv", <<>>)>>
               \o rest :
                a \in values, b \in values,
                name \in {"assert_eq", "assert_lt", "range"},
                rest \in {<<>>, <<Literal(ValA)>>}}
        more == values \cup {MakeEnum(FALSE, <<1, 0>>), MakeArray(<<>>),
                             MakeArray(<<ValA, MakeUBits(1, 1)>>)}
        unary == {"and_reduce", "or_reduce", "xor_reduce", "clz", "ctz",
                  "enumerate", "rev"}
        binary == {"add_with_carry", "gate", "one_hot", "one_hot_sel", "signex"}
        ternary == {"bit_slice", "bit_slice_update", "slice", "update"}
        seconds == {MakeUBits(2, 0), MakeUBits(2, 1), MakeUBits(2, 3),
                    MakeSBits(2, 3), MakeUBits(1, 1), MakeToken}
        thirds == {MakeUBits(0, 0), MakeUBits(1, 0), MakeUBits(2, 1),
                   MakeArray(<<ValA, ValB>>), MakeToken}
        unaries ==
            {<<Literal(a), builtin(name), Call("inv", <<>>)>> \o rest :
                a \in more, name \in unary, rest \in {<<>>, <<Literal(ValA)>>}}
        binaries ==
            {<<Literal(a), Literal(b), builtin(name), Call("inv", <<>>)>>
               \o rest :
                a \in more, b \in more, name \in binary,
                rest \in {<<>>, <<Literal(ValA)>>}}
        ternaries ==
            {<<Literal(a), Literal(b), Literal(c), builtin(name),
               Call("inv", <<>>)>> :
                a \in more, b \in seconds, c \in thirds, name \in ternary}
        short == {<<builtin(name), Call("inv", <<>>)>> :
                     name \in unary \cup binary \cup ternary}
                 \cup {<<Literal(ValA), builtin(name), Call("inv", <<>>)>> :
                          name \in binary \cup ternary}
    IN  \E entry \in binops \cup builtins \cup unaries \cup binaries
                       \cup ternaries \cup short :
            InitInterpreter(
                [cache |-> TRUE, instantiations |-> {}],
                [f \in {EntryFn} |->
                    [parametric |-> FALSE, owner |-> "m", params |-> 0,
                     bytecodes |-> entry]],
                <<>>)

NextArith ==
    \/ RunLiteral
    \/ RunIteration("Sub", EvalBinop(CurBytecode), TRUE)
    \/ RunIteration("Concat", EvalBinop(CurBytecode), TRUE)
    \/ RunIteration("Shr", EvalBinop(CurBytecode), TRUE)
    \/ RunCall
    \/ PopFrame
    \/ InterpretReturn

SpecArith == InitArith /\ [][NextArith]_vars

-----------------------------------------------------------------------------
(* Claims about binary operations and builtins, checked under SpecArith.   *)

\* The binary operation op is about to execute on two bits values.
BinopReady(op) ==
    /\ CanFetch
    /\ CurBytecode.op = op
    /\ Len(stack_) >= 2
    /\ IsBits(Back(stack_))
    /\ IsBits(stack_[Len(stack_) - 1])

\* The number a bits value stands for under its tag.
NumberOf(v) == IF IsSigned(v) THEN BitsToInt(v.bits) ELSE BitsToUint(v.bits)

\* C32: a binary opcode takes the top of the stack as rhs and the value
\* beneath it as lhs and replaces both by one result.  Sub of two values of
\* one width is lhs - rhs modulo 2^width, with the tag of lhs; Concat of two
\* unsigned values has width |lhs| + |rhs|, the bits of rhs at the low end
\* and those of lhs above them; and [Literal u4 0b1010, Literal u4 0b0011,
\* Concat] returns u8 0b10100011.
C32_BinaryOperands ==
    /\ [][(BinopReady("Sub")
             /\ Len(Back(stack_).bits) = Len(stack_[Len(stack_) - 1].bits)) =>
            LET rhs == Back(stack_)
                lhs == stack_[Len(stack_) - 1]
            IN  /\ status' = "running"
                /\ stack_' = Append(SubSeq(stack_, 1, Len(stack_) - 2),
                                    [tag |-> lhs.tag,
                                     bits |-> BitsOf(Len(lhs.bits),
                                                     BitsToUint(lhs.bits)
                                                       - BitsToUint(rhs.bits))])]_vars
    /\ [][(BinopReady("Concat") /\ ~IsSigned(Back(stack_))
             /\ ~IsSigned(stack_[Len(stack_) - 1])) =>
            LET rhs == Back(stack_)
                lhs == stack_[Len(stack_) - 1]
            IN  /\ status' = "running"
                /\ Len(stack_') = Len(stack_) - 1
                /\ Back(stack_').tag = "UBits"
                /\ Len(Back(stack_').bits) = Len(lhs.bits) + Len(rhs.bits)
                /\ \A i \in 1..Len(rhs.bits) : Back(stack_').bits[i] = rhs.bits[i]
                /\ \A i \in 1..Len(lhs.bits) :
                      Back(stack_').bits[Len(rhs.bits) + i] = lhs.bits[i]]_vars
    /\ []((EntryProgram = <<Literal(MakeUBits(4, 10)), Literal(MakeUBits(4, 3)),
                            Nullary("Concat")>>
             /\ status \notin {"running"})
            => status = "ok" /\ result = <<MakeUBits(8, 163)>>)

\* The Concat scenario has returned u8 0b10100011.
C32_Witness ==
    /\ EntryProgram = <<Literal(MakeUBits(4, 10)), Literal(MakeUBits(4, 3)),
                        Nullary("Concat")>>
    /\ status = "ok"
    /\ result = <<MakeUBits(8, 163)>>

\* C33: Shr of lhs by rhs keeps the tag and the width of lhs and divides the
\* number lhs stands for by 2^rhs, rounding down: an arithmetic shift of a
\* signed lhs, a logical shift of an unsigned one, whatever the tag of rhs,
\* whose bits are taken as an unsigned amount; and [Literal s8 -1,
\* Literal u8 7, Shr] returns s8 -1.
C33_ShrByLhsTag ==
    /\ [][BinopReady("Shr") =>
            LET rhs == Back(stack_)
                lhs == stack_[Len(stack_) - 1]
                w == Len(lhs.bits)
                amount == IF BitsToUint(rhs.bits) > w THEN w
                          ELSE BitsToUint(rhs.bits)
            IN  /\ status' = "running"
                /\ stack_' = Append(SubSeq(stack_, 1, Len(stack_) - 2),
                                    [tag |-> lhs.tag,
                                     bits |-> BitsOf(w, NumberOf(lhs)
                                                          \div Pow2(amount))])]_vars
    /\ []((EntryProgram = <<Literal(MakeSBits(8, 0 - 1)), Literal(MakeUBits(8, 7)),
                            Nullary("Shr")>>
             /\ status \notin {"running"})
            => status = "ok" /\ result = <<MakeSBits(8, 0 - 1)>>)

\* A negative lhs has been shifted by a positive amount and is still
\* negative, and the Shr scenario has returned s8 -1.
C33_Witness ==
    /\ EntryProgram = <<Literal(MakeSBits(8, 0 - 1)), Literal(MakeUBits(8, 7)),
                        Nullary("Shr")>>
    /\ status = "ok"
    /\ result = <<MakeSBits(8, 0 - 1)>>

\* The builtin name is about to be called on two operands.
BuiltinReady(name) ==
    /\ CanFetch
    /\ CurBytecode.op = "Call"
    /\ Len(stack_) >= 3
    /\ Back(stack_) = [tag |-> "Function", builtin |-> name]

RECURSIVE SameType(_, _)
\* Two values of one type: the tags agree, and the widths, and the types of
\* the elements.
SameType(a, b) ==
    /\ a.tag = b.tag
    /\ IsBits(a) => Len(a.bits) = Len(b.bits)
    /\ (IsTuple(a) \/ IsArray(a)) =>
          /\ Len(a.values) = Len(b.values)
          /\ \A i \in 1..Len(a.values) : SameType(a.values[i], b.values[i])

\* The call returns without an error: the callee and the two operands have
\* been replaced by one value, and the pc is at the instruction after the
\* Call.
AssertionPasses ==
    /\ status' = "running"
    /\ Len(stack_') = Len(stack_) - 2
    /\ SubSeq(stack_', 1, Len(stack_') - 1) = SubSeq(stack_, 1, Len(stack_) - 3)
    /\ frames_' = IncrementPc(frames_)

\* C31: on two operands of one type, assert_eq returns a Failure error when
\* the operands differ and passes when they are equal; on two bits values of
\* one type, assert_lt returns a Failure error when lhs < rhs does not hold
\* and passes when it does.
C31_Assertions ==
    /\ [][(BuiltinReady("assert_eq")
             /\ SameType(stack_[Len(stack_) - 2], stack_[Len(stack_) - 1])) =>
            IF stack_[Len(stack_) - 2] = stack_[Len(stack_) - 1]
            THEN AssertionPasses
            ELSE status' = "Failure"]_vars
    /\ [][(BuiltinReady("assert_lt")
             /\ IsBits(stack_[Len(stack_) - 2])
             /\ SameType(stack_[Len(stack_) - 2], stack_[Len(stack_) - 1])) =>
            IF NumberOf(stack_[Len(stack_) - 2]) < NumberOf(stack_[Len(stack_) - 1])
            THEN AssertionPasses
            ELSE status' = "Failure"]_vars

\* assert_eq has passed on two equal tuples and the instruction after the
\* Call is next.
C31_Witness ==
    /\ status = "running"
    /\ Len(frames_) = 1
    /\ Len(EntryProgram) = 5
    /\ EntryProgram[3] = Literal([tag |-> "Function", builtin |-> "assert_eq"])
    /\ EntryProgram[1].value = MakeTuple(<<ValA>>)
    /\ CurFrame.pc = 4
    /\ Len(stack_) = 1

\* C40: range on start and end of one width and signedness terminates and
\* pushes the array of start, start + 1, ..., end - 1, in this order: of no
\* element when start >= end, and of every value from start to the one
\* before the greatest when end is the greatest value of the type.
C40_RangeTerminates ==
    [][(BuiltinReady("range")
          /\ IsBits(stack_[Len(stack_) - 2])
          /\ SameType(stack_[Len(stack_) - 2], stack_[Len(stack_) - 1])) =>
         LET start == stack_[Len(stack_) - 2]
             end == stack_[Len(stack_) - 1]
             count == IF NumberOf(start) >= NumberOf(end) THEN 0
                      ELSE NumberOf(end) - NumberOf(start)
         IN  /\ status' = "running"
             /\ stack_' = Append(SubSeq(stack_, 1, Len(stack_) - 3),
                                 MakeArray([i \in 1..count |->
                                     [tag |-> start.tag,
                                      bits |-> BitsOf(Len(start.bits),
                                                      NumberOf(start) + i - 1)]]))
             /\ frames_' = IncrementPc(frames_)]_vars

\* range has returned from 0 up to the greatest unsigned value of a width:
\* every value of that width but the greatest.
C40_Witness ==
    /\ status = "running"
    /\ Len(EntryProgram) >= 4
    /\ EntryProgram[3] = Literal([tag |-> "Function", builtin |-> "range"])
    /\ CurFrame.pc = 4
    /\ EntryProgram[1].value = MakeUBits(MaxArithWidth, 0)
    /\ EntryProgram[2].value = MakeUBits(MaxArithWidth, Pow2(MaxArithWidth) - 1)
    /\ Len(stack_) = 1
    /\ Len(Back(stack_).values) = Pow2(MaxArithWidth) - 1

-----------------------------------------------------------------------------
(* The range of the pc, checked on the programs of jumps.                  *)

\* 0 <= pc <= |bytecodes| in every frame on the frame stack.
PcWithinFrame ==
    \A k \in 1..Len(frames_) :
        0 <= frames_[k].pc /\ frames_[k].pc <= Len(BytecodesOf(frames_[k]))

\* The jump about to execute would set the pc outside 0..|bytecodes|.
JumpsOutside ==
    LET pc == CurFrame.pc + CurBytecode.target
    IN  pc < 0 \/ pc > Len(BytecodesOf(CurFrame))

\* C37: the pc of every frame stays within 0..|bytecodes| in every state of
\* Run, and a taken jump that would set it outside that range ends Run with
\* an error status.  (Instructions are fetched by RunIteration, only at
\* 0 <= pc < |bytecodes|.)
C37_PcInRange ==
    /\ []PcWithinFrame
    /\ [][(JumpTaken /\ JumpsOutside) => status' \in ErrorCodes]_vars

-----------------------------------------------------------------------------
(* The stack effect of WidthSlice, checked on the programs that slice.     *)

\* C38: a WidthSlice that succeeds, with a basis and a start on the stack,
\* leaves the stack one value shorter (two removed, one pushed) and puts its
\* result where the basis was, on every path, also when start does not fit
\* in 64 bits.
C38_WidthSliceStackEffect ==
    [][(CanFetch /\ CurBytecode.op = "WidthSlice" /\ Len(stack_) >= 2
          /\ status' = "running") =>
           /\ Len(stack_') = Len(stack_) - 1
           /\ SubSeq(stack_', 1, Len(stack_') - 1)
                 = SubSeq(stack_, 1, Len(stack_) - 2)]_vars

-----------------------------------------------------------------------------
(* Claims about frames, checked on the programs of channel operations and  *)
(* of calls, where a map frame runs its loop on top of its caller.         *)

\* The slots of every frame on the frame stack, bottom first.
AllSlots(frames) == [k \in 1..Len(frames) |-> frames[k].slots]

\* C34: executing a JumpDest changes neither the value stack nor the slots
\* of any frame; it only advances the pc of the current frame by one, and
\* execution goes on.
C34_JumpDestNeutral ==
    [][(CanFetch /\ CurBytecode.op = "JumpDest") =>
           /\ stack_' = stack_
           /\ frames_' = IncrementPc(frames_)
           /\ AllSlots(frames_') = AllSlots(frames_)
           /\ status' = "running"]_vars

\* C36: no step of Run changes a frame below the top of the frame stack:
\* while a callee frame is on top, the pc and the slots of its callers stay
\* as they are, whatever the callee executes (Store, and MatchArm with Store
\* items nested in tuple patterns, included).
C36_OnlyTopFrameChanges ==
    [][\A k \in 1..(Len(frames_) - 1) :
          k <= Len(frames_') => frames_'[k] = frames_[k]]_vars

\* The callee bind has bound slots 1 and 0 through a nested tuple pattern
\* and stored into slot 2, above a caller whose slots hold its arguments.
C36_Witness ==
    /\ status = "running"
    /\ Len(frames_) = 2
    /\ CurFrame.bf = "bind"
    /\ CurFrame.pc = 3
    /\ CurFrame.slots = <<ValB, ValA, MakeBool(TRUE)>>
    /\ frames_[1].slots = <<MakeChannel("c1"), MakeChannel("c2")>>
    /\ frames_[1].pc = 3

\* The loop top of a map frame has just been executed, with values on the
\* stack and slots in both frames.
C34_Witness ==
    /\ status = "running"
    /\ Len(frames_) = 2
    /\ CurFrame.pc > 0
    /\ BytecodesOf(CurFrame)[CurFrame.pc].op = "JumpDest"
    /\ stack_ # <<>>
    /\ \A k \in 1..2 : frames_[k].slots # <<>>

====
